---------------------------- MODULE Spec2Model ----------------------------
(***************************************************************************)
(* Model of the SPSS frequency dashboard pipeline: FilterEngine,           *)
(* WeightCalculator, FrequencyProcessor and the dashboard's per-variable   *)
(* tabulation (dash_app).                                                  *)
(*                                                                         *)
(* A pandas DataFrame is a record [cols, rows]; a row is [idx, val] where  *)
(* idx is the row's index label (its position in the loaded table) and val *)
(* maps each column name to a number.  Floats are modelled by integers;    *)
(* quotients (percentages, ESS, DEFF) are kept as exact fractions          *)
(* [num, den] and compared by cross-multiplication.                        *)
(***************************************************************************)
EXTENDS Integers, Sequences, FiniteSets, TLC

VARIABLES
    data,               \* SPSSReader.data: the loaded table
    reader_value_labels, \* SPSSReader.value_labels: column -> value labels
    config,             \* the configuration loaded from meta.json
    weighting_enabled,  \* FrequencyProcessor.weighting_enabled
    results,            \* FrequencyProcessor.results
    warnings,           \* FrequencyProcessor.warnings
    calls,              \* the number of process_all_variables calls made
    out,                \* what the last call of a component returned
    is_running,         \* DashboardLauncher.is_running
    dash_process,       \* DashboardLauncher.dash_process: a process id, 0 for None
    launch_btn,         \* the state of the Launch button
    shutdown_btn,       \* the state of the Stop Server button
    alive,              \* the dashboard subprocesses that are alive
    monitor,            \* the _monitor_process threads, one per launch
    pending,            \* the _on_process_ended callbacks queued by root.after
    launched            \* the number of subprocesses started

readerVars == <<data, reader_value_labels>>
processorVars == <<config, weighting_enabled, results, warnings, calls>>
launcherVars ==
    <<is_running, dash_process, launch_btn, shutdown_btn, alive, monitor, pending, launched>>
vars == <<data, reader_value_labels, config, weighting_enabled, results, warnings, calls, out,
          is_running, dash_process, launch_btn, shutdown_btn, alive, monitor, pending,
          launched>>

(***************************************************************************)
(* Bounds of the model                                                     *)
(***************************************************************************)
MaxRowsStd == 5        \* rows of a table with the single column Q1
MaxRowsAnd == 2        \* rows of a table with the columns Q1, Q2
MaxRowsMulti == 4      \* rows of a table with the columns Q3_1, Q3_2
MaxRowsWeight == 5     \* rows of a table with the single column WEIGHT
MaxRowsFreq == 4       \* rows of a table with the single column Q1 (tabulation)
MaxRowsFreqW == 2      \* rows of a table with the columns Q1, WEIGHT
MaxRowsMultiW == 2     \* rows of a table with the columns Q3_1, Q3_2, WEIGHT
MaxRowsMixed == 2      \* rows of a table with the columns Q1, Q3_1, WEIGHT
MaxCalls == 2          \* process_all_variables calls on one processor
MaxRowsValidate == 2   \* rows of a table a configuration is validated against
MaxLaunches == 3       \* dashboard subprocesses started by one launcher window

(***************************************************************************)
(* Numbers                                                                 *)
(***************************************************************************)
NaN == 1000            \* the missing marker (pandas NaN / None)
Inf == 999             \* float('inf'); larger than every finite number used

notna(x) == x # NaN
isna(x) == x = NaN

\* pandas element-wise comparisons: any comparison with NaN is False
PdEq(x, v) == notna(x) /\ notna(v) /\ x = v
PdGe(x, v) == notna(x) /\ notna(v) /\ x >= v
PdLe(x, v) == notna(x) /\ notna(v) /\ x <= v
PdGt(x, v) == notna(x) /\ notna(v) /\ x > v
PdLt(x, v) == notna(x) /\ notna(v) /\ x < v

\* Series.isin(list): membership; unlike ==, isin matches NaN with NaN
isin(x, list) == \E k \in 1..Len(list) : list[k] = x

Frac(n, d) == [num |-> n, den |-> d]
FracEq(f, k) == f.num = k * f.den

RECURSIVE SumSeq(_)
SumSeq(s) == IF s = <<>> THEN 0 ELSE s[1] + SumSeq(Tail(s))

Range(s) == {s[k] : k \in 1..Len(s)}

(***************************************************************************)
(* Tables                                                                  *)
(***************************************************************************)
len(df) == Len(df.rows)
Series(df, col) == [k \in 1..len(df) |-> df.rows[k].val[col]]
Index(df) == [k \in 1..len(df) |-> df.rows[k].idx]

\* df[mask]: the rows whose mask entry is True, in order
RECURSIVE MaskRows(_, _)
MaskRows(rows, mask) ==
    IF rows = <<>> THEN <<>>
    ELSE (IF mask[1] THEN <<rows[1]>> ELSE <<>>) \o MaskRows(Tail(rows), Tail(mask))

BoolIndex(df, mask) == [cols |-> df.cols, rows |-> MaskRows(df.rows, mask)]

\* the rows a table over the columns cols can hold, the values of column c
\* drawn from dom[c]
RowVals(cols, dom) ==
    {r \in [cols -> UNION {dom[c] : c \in cols}] : \A c \in cols : r[c] \in dom[c]}

\* df is a table over the columns cols with at most maxn rows, indexed 1..n
IsTable(df, cols, dom, maxn) ==
    \E n \in 0..maxn : \E f \in [1..n -> RowVals(cols, dom)] :
        df = [cols |-> cols, rows |-> [k \in 1..n |-> [idx |-> k, val |-> f[k]]]]

(***************************************************************************)
(* Filter conditions.  A condition object is a dict operator -> operand;   *)
(* it is modelled as the sequence `ops` of its entries.  The operand of an *)
(* entry is val (a scalar), vals (a list of scalars) or subs (a list of    *)
(* sub-variable names), depending on the operator.  A Filter Set is the    *)
(* sequence of its [var, ops] items in dict order.                         *)
(***************************************************************************)
Entry(o, v, vs, ss) == [op |-> o, val |-> v, vals |-> vs, subs |-> ss]
Cond(var, o, v, vs, ss) == [var |-> var, ops |-> <<Entry(o, v, vs, ss)>>]
eq(var, v) == Cond(var, "eq", v, <<>>, <<>>)
in(var, vs) == Cond(var, "in", 0, vs, <<>>)
between(var, vs) == Cond(var, "between", 0, vs, <<>>)
not_missing(var) == Cond(var, "not_missing", 1, <<>>, <<>>)
any(var, ss) == Cond(var, "any", 0, <<>>, ss)
all(var, ss) == Cond(var, "all", 0, <<>>, ss)
min_selected(var, n) == Cond(var, "min_selected", n, <<>>, <<>>)

Raise(msg, name) == [ok |-> FALSE, error |-> msg, name |-> name]

\* a description string: its fixed text and the operand it prints
Desc(text, e) == [text |-> text, operand |-> e]

(***************************************************************************)
(* FilterEngine                                                            *)
(***************************************************************************)
\* {parent_name: [sub_var1, ...]} as the set of multi variables with sub_variables
RECURSIVE _build_multi_punch_map(_)
_build_multi_punch_map(variables_config) ==
    IF variables_config = <<>> THEN <<>>
    ELSE LET var == variables_config[1]
             rest == _build_multi_punch_map(Tail(variables_config))
         IN  IF var.type = "multi" /\ var.has_sub_variables
             THEN <<[name |-> var.name, sub_variables |-> var.sub_variables]>>
                  \o SelectSeq(rest, LAMBDA e : e.name # var.name)
             ELSE rest

InMap(mp_map, name) == \E k \in 1..Len(mp_map) : mp_map[k].name = name
MapGet(mp_map, name) ==
    mp_map[CHOOSE k \in 1..Len(mp_map) : mp_map[k].name = name].sub_variables

\* the mask of `in` without the notna guard
InMaskNoGuard(x, value) == isin(x, value)
InMask(x, value) == isin(x, value) /\ notna(x)

\* the evaluator that skips a condition silently: no error, every row kept
StandardOperatorSkipped(df, var_name, operator, e) ==
    [ok |-> TRUE, mask |-> [k \in 1..len(df) |-> TRUE], description |-> Desc("skipped", e)]
_apply_standard_operator(df, var_name, operator, e) ==
    IF var_name \notin df.cols THEN Raise("Variable not found", var_name)
    ELSE LET series == Series(df, var_name) IN
         CASE operator = "eq" ->
                [ok |-> TRUE,
                 mask |-> [k \in 1..len(df) |-> PdEq(series[k], e.val) /\ notna(series[k])],
                 description |-> Desc("=", e)]
           [] operator = "in" ->
                [ok |-> TRUE,
                 mask |-> [k \in 1..len(df) |-> InMask(series[k], e.vals)],
                 description |-> Desc("IN", e)]
           [] operator = "between" ->
                IF Len(e.vals) # 2 THEN Raise("between requires a list of 2 values", var_name)
                ELSE [ok |-> TRUE,
                      mask |-> [k \in 1..len(df) |->
                                   PdGe(series[k], e.vals[1]) /\ PdLe(series[k], e.vals[2])
                                   /\ notna(series[k])],
                      description |-> Desc("BETWEEN", e)]
           [] operator = "not_missing" ->
                IF e.val # 1 THEN Raise("not_missing requires value=true", var_name)
                ELSE [ok |-> TRUE,
                      mask |-> [k \in 1..len(df) |-> notna(series[k])],
                      description |-> Desc("Not Missing", e)]
           [] OTHER -> Raise("Unknown operator", var_name)

\* the number of the listed sub-variables equal to 1 in a row (a list, so a
\* sub-variable listed twice is counted twice)
CountSelected(row, sub_vars) ==
    Cardinality({k \in 1..Len(sub_vars) : PdEq(row.val[sub_vars[k]], 1)})

AllMaskAsAny(row, sub_vars) == \E k \in 1..Len(sub_vars) : PdEq(row.val[sub_vars[k]], 1)
AllMask(row, sub_vars) == \A k \in 1..Len(sub_vars) : PdEq(row.val[sub_vars[k]], 1)

_apply_multi_punch_operator(df, mp_map, var_name, operator, e) ==
    IF operator = "min_selected" /\ ~InMap(mp_map, var_name)
    THEN Raise("Variable not defined as type=multi with sub_variables", var_name)
    ELSE LET sub_vars == IF operator = "min_selected" THEN MapGet(mp_map, var_name)
                         ELSE e.subs
             absent == {k \in 1..Len(sub_vars) : sub_vars[k] \notin df.cols}
         IN  IF absent # {}
             THEN Raise("Sub-variable not found",
                        sub_vars[CHOOSE k \in absent : \A j \in absent : k <= j])
             ELSE CASE operator = "any" ->
                         [ok |-> TRUE,
                          mask |-> [k \in 1..len(df) |->
                                       \E j \in 1..Len(sub_vars) :
                                           PdEq(df.rows[k].val[sub_vars[j]], 1)],
                          description |-> Desc("Selected ANY of", e)]
                    [] operator = "all" ->
                         [ok |-> TRUE,
                          mask |-> [k \in 1..len(df) |-> AllMask(df.rows[k], sub_vars)],
                          description |-> Desc("Selected ALL of", e)]
                    [] operator = "min_selected" ->
                         [ok |-> TRUE,
                          mask |-> [k \in 1..len(df) |->
                                       CountSelected(df.rows[k], sub_vars) >= e.val],
                          description |-> Desc("Selected at least", [e EXCEPT !.subs = sub_vars])]

multi_punch_operators == {"any", "all", "min_selected"}

_apply_condition(df, mp_map, var_name, condition) ==
    IF Len(condition) # 1 THEN Raise("must have exactly one operator", var_name)
    ELSE LET e == condition[1] IN
         IF e.op \in multi_punch_operators
         THEN _apply_multi_punch_operator(df, mp_map, var_name, e.op, e)
         ELSE _apply_standard_operator(df, var_name, e.op, e)

\* the loop with `combined_mask = mask` in place of `combined_mask & mask`
RECURSIVE CombineMasksLast(_, _, _, _, _)
CombineMasksLast(df, mp_map, items, combined_mask, filter_summary) ==
    IF items = <<>>
    THEN [ok |-> TRUE, mask |-> combined_mask, filter_summary |-> filter_summary]
    ELSE LET r == _apply_condition(df, mp_map, items[1].var, items[1].ops) IN
         IF ~r.ok THEN r
         ELSE CombineMasksLast(df, mp_map, Tail(items), r.mask,
                               Append(filter_summary,
                                      [var |-> items[1].var, description |-> r.description]))

\* the loop with a failing condition swallowed: its rows all kept
RECURSIVE CombineMasksSwallow(_, _, _, _, _)
CombineMasksSwallow(df, mp_map, items, combined_mask, filter_summary) ==
    IF items = <<>>
    THEN [ok |-> TRUE, mask |-> combined_mask, filter_summary |-> filter_summary]
    ELSE LET r == _apply_condition(df, mp_map, items[1].var, items[1].ops) IN
         IF ~r.ok
         THEN CombineMasksSwallow(df, mp_map, Tail(items), combined_mask, filter_summary)
         ELSE CombineMasksSwallow(df, mp_map, Tail(items),
                                  [k \in 1..len(df) |-> combined_mask[k] /\ r.mask[k]],
                                  Append(filter_summary,
                                         [var |-> items[1].var, description |-> r.description]))

\* the loop of apply_filter_set over the items of the dict: the AND of the
\* masks and the description map, or the first failure
RECURSIVE CombineMasks(_, _, _, _, _)
CombineMasks(df, mp_map, items, combined_mask, filter_summary) ==
    IF items = <<>>
    THEN [ok |-> TRUE, mask |-> combined_mask, filter_summary |-> filter_summary]
    ELSE LET r == _apply_condition(df, mp_map, items[1].var, items[1].ops) IN
         IF ~r.ok THEN r
         ELSE CombineMasks(df, mp_map, Tail(items),
                           [k \in 1..len(df) |-> combined_mask[k] /\ r.mask[k]],
                           Append(filter_summary,
                                  [var |-> items[1].var, description |-> r.description]))

\* the stats of an empty filter set with every row reported excluded
EmptyStatsAllExcluded(n) ==
    [original_count |-> n, filtered_count |-> 0, exclusion_rate |-> Frac(100, 1)]
\* the stats returned for an empty filter set (no excluded_count key)
EmptyStats(n) ==
    [original_count |-> n, filtered_count |-> n, exclusion_rate |-> Frac(0, 1)]

\* the stats returned for a non-empty filter set
Stats(original_count, filtered_count) ==
    [original_count |-> original_count,
     filtered_count |-> filtered_count,
     excluded_count |-> original_count - filtered_count,
     exclusion_rate |-> IF original_count > 0
                        THEN Frac((original_count - filtered_count) * 100, original_count)
                        ELSE Frac(0, 1)]

\* apply_filter_set: `copy` tells whether the returned table is a new object
\* (`self.data[combined_mask].copy()`) or self.data itself (`return self.data`)
apply_filter_set(df, mp_map, filter_conditions) ==
    IF filter_conditions = <<>>
    THEN [ok |-> TRUE, filtered_data |-> df, copy |-> FALSE, filter_summary |-> <<>>,
          stats |-> EmptyStats(len(df))]
    ELSE LET r == CombineMasks(df, mp_map, filter_conditions,
                               [k \in 1..len(df) |-> TRUE], <<>>)
         IN  IF ~r.ok THEN r
             ELSE LET filtered_data == BoolIndex(df, r.mask) IN
                  [ok |-> TRUE, filtered_data |-> filtered_data, copy |-> TRUE,
                   filter_summary |-> r.filter_summary,
                   stats |-> Stats(len(df), len(filtered_data))]

get_filter_info(filter_set_name, filter_summary, stats) ==
    IF "excluded_count" \notin DOMAIN stats THEN Raise("KeyError", "excluded_count")
    ELSE [ok |-> TRUE, name |-> filter_set_name, conditions |-> filter_summary,
          original_count |-> stats.original_count,
          filtered_count |-> stats.filtered_count,
          excluded_count |-> stats.excluded_count,
          exclusion_rate |-> stats.exclusion_rate]

(***************************************************************************)
(* WeightCalculator                                                        *)
(***************************************************************************)
\* a valid weight without the `> 0` test replaced by `>= 0`
ValidWeightNonNegative(w) == notna(w) /\ PdGe(w, 0) /\ PdLt(w, Inf)
\* self.valid_mask, per weight
ValidWeight(w) == notna(w) /\ PdGt(w, 0) /\ PdLt(w, Inf)

Min(S) == CHOOSE x \in S : \A y \in S : x <= y
Max(S) == CHOOSE x \in S : \A y \in S : x >= y
Abs(x) == IF x < 0 THEN -x ELSE x

\* a warning string: its fixed text, the name and the number it prints
Warn(text, name, n) == [text |-> text, name |-> name, n |-> n]

\* WeightCalculator(data, weight_variable): __init__ and
\* _validate_and_prepare_weights; the object built, or the ValueError raised
WeightCalculator(df, weight_variable) ==
    IF weight_variable \notin df.cols
    THEN Raise("Weight variable not found", weight_variable)
    ELSE
    LET weights == Series(df, weight_variable)
        total_respondents == Len(weights)
        missing_count == Cardinality({k \in 1..Len(weights) : isna(weights[k])})
        invalid_count ==
            Cardinality({k \in 1..Len(weights) : PdLe(weights[k], 0) /\ notna(weights[k])})
        valid_mask == [k \in 1..Len(weights) |-> ValidWeight(weights[k])]
        valid_rows == MaskRows(df.rows, valid_mask)
        valid_weights == [k \in 1..Len(valid_rows) |-> valid_rows[k].val[weight_variable]]
        valid_count == Len(valid_weights)
        excluded_count == total_respondents - valid_count
        w1 == IF missing_count > 0
              THEN <<Warn("respondent(s) have missing weights", weight_variable, missing_count)>> ELSE <<>>
        w2 == IF invalid_count > 0
              THEN <<Warn("respondent(s) have invalid weights", weight_variable, invalid_count)>> ELSE <<>>
    IN  IF valid_count > 0
        THEN LET min_weight == Min(Range(valid_weights))
                 max_weight == Max(Range(valid_weights))
                 sum_weights == SumSeq(valid_weights)
                 sum_weights_squared ==
                     SumSeq([k \in 1..valid_count |-> valid_weights[k] * valid_weights[k]])
                 w3 == IF max_weight > 10 * min_weight
                       THEN <<Warn("Extreme weight variation detected", weight_variable, max_weight)>>
                       ELSE <<>>
                 w4 == IF Abs(sum_weights - valid_count) * 10 > valid_count
                       THEN <<Warn("Average weight is not ~1.0", weight_variable, sum_weights)>> ELSE <<>>
             IN  [ok |-> TRUE,
                  data |-> df,
                  weight_variable |-> weight_variable,
                  valid_mask |-> valid_mask,
                  warnings |-> w1 \o w2 \o w3 \o w4,
                  validation_info |->
                     [total_respondents |-> total_respondents,
                      valid_count |-> valid_count,
                      excluded_count |-> excluded_count,
                      missing_count |-> missing_count,
                      invalid_count |-> invalid_count,
                      sum_weights |-> sum_weights,
                      min_weight |-> min_weight,
                      max_weight |-> max_weight,
                      mean_weight |-> Frac(sum_weights, valid_count),
                      ess |-> IF sum_weights_squared > 0
                              THEN Frac(sum_weights * sum_weights, sum_weights_squared)
                              ELSE Frac(0, 1),
                      deff |-> IF sum_weights_squared > 0 /\ sum_weights * sum_weights > 0
                               THEN Frac(valid_count * sum_weights_squared,
                                         sum_weights * sum_weights)
                               ELSE Frac(1, 1)]]
        ELSE Raise("No valid weights found", weight_variable)

\* get_valid_data_and_weights: the rows with a valid weight, index kept
get_valid_data(calc) ==
    [cols |-> calc.data.cols, rows |-> MaskRows(calc.data.rows, calc.valid_mask)]

\* self.weights[self.valid_mask] as the weight of a row of valid_data
WeightOfRow(calc, row) == row.val[calc.weight_variable]

\* sorted(values)
RECURSIVE sorted(_)
sorted(S) == IF S = {} THEN <<>> ELSE <<Min(S)>> \o sorted(S \ {Min(S)})

\* value_labels: the dict value -> label as the sequence of its items
Keys(value_labels) == [k \in 1..Len(value_labels) |-> value_labels[k].value]
Labelled(value_labels, v) == \E k \in 1..Len(value_labels) : value_labels[k].value = v
LabelOf(value_labels, v) ==
    value_labels[CHOOSE k \in 1..Len(value_labels) : value_labels[k].value = v].label

\* str(value) of a float
str(v) ==
    CASE v = 0 -> "0.0" [] v = 1 -> "1.0" [] v = 2 -> "2.0" [] v = 3 -> "3.0"
      [] OTHER -> "nan"

\* series.dropna().unique() as a set
Observed(series) == {series[k] : k \in {j \in 1..Len(series) : notna(series[j])}}

\* ordered_values of calculate_weighted_frequencies_single
OrderedValuesWeighted(series, value_labels) ==
    IF value_labels # <<>>
    THEN SelectSeq(Keys(value_labels), LAMBDA v : \E k \in 1..Len(series) : PdEq(series[k], v))
         \o sorted({v \in Observed(series) : ~Labelled(value_labels, v)})
    ELSE sorted(Observed(series))

\* the sum taken over every row, the mask ignored
WeightedSumAllRows(calc, rows, mask) ==
    SumSeq([k \in 1..Len(rows) |-> WeightOfRow(calc, rows[k])])
\* valid_weights[mask].sum(): the weights of the rows whose mask entry is True
WeightedSum(calc, rows, mask) ==
    SumSeq([k \in 1..Len(rows) |-> IF mask[k] THEN WeightOfRow(calc, rows[k]) ELSE 0])

\* mask.sum(): the number of True entries
CountTrue(mask) == Cardinality({k \in 1..Len(mask) : mask[k]})

\* the total with the weights of the rows whose response is missing left out
TotalWeightedSkipMissing(calc, rows, var_name) ==
    WeightedSum(calc, rows, [k \in 1..Len(rows) |-> notna(rows[k].val[var_name])])
\* total_weighted = valid_weights.sum()
TotalWeighted(calc, rows, var_name) ==
    WeightedSum(calc, rows, [k \in 1..Len(rows) |-> TRUE])

\* calculate_weighted_frequencies_single(series, value_labels), the series
\* being the column var_name of the rows passed (valid_data[var_name])
calculate_weighted_frequencies_single(calc, rows, var_name, value_labels) ==
    LET series == [k \in 1..Len(rows) |-> rows[k].val[var_name]]
        total_unweighted == Len(series)
        total_weighted == TotalWeighted(calc, rows, var_name)
        ordered_values == OrderedValuesWeighted(series, value_labels)
        Row(value) ==
            LET mask == [k \in 1..Len(series) |-> PdEq(series[k], value)]
                weighted_count == WeightedSum(calc, rows, mask)
            IN  [value |-> value,
                 label |-> IF value_labels # <<>> /\ Labelled(value_labels, value)
                           THEN LabelOf(value_labels, value) ELSE str(value),
                 unweighted_count |-> CountTrue(mask),
                 weighted_count |-> weighted_count,
                 percentage |-> IF total_weighted > 0
                                THEN Frac(weighted_count * 100, total_weighted)
                                ELSE Frac(0, 1),
                 is_missing |-> FALSE]
        valid_rows == [k \in 1..Len(ordered_values) |-> Row(ordered_values[k])]
        missing_mask == [k \in 1..Len(series) |-> isna(series[k])]
        missing_unweighted == CountTrue(missing_mask)
        missing_weighted == WeightedSum(calc, rows, missing_mask)
        missing_row ==
            IF missing_unweighted > 0
            THEN <<[value |-> NaN, label |-> "Missing",
                    unweighted_count |-> missing_unweighted,
                    weighted_count |-> missing_weighted,
                    percentage |-> IF total_weighted > 0
                                   THEN Frac(missing_weighted * 100, total_weighted)
                                   ELSE Frac(0, 1),
                    is_missing |-> TRUE]>>
            ELSE <<>>
    IN  [total_unweighted |-> total_unweighted,
         total_weighted |-> total_weighted,
         valid_unweighted |-> SumSeq([k \in 1..Len(valid_rows) |-> valid_rows[k].unweighted_count]),
         valid_weighted |-> SumSeq([k \in 1..Len(valid_rows) |-> valid_rows[k].weighted_count]),
         freq_table |-> valid_rows \o missing_row]

\* has_any_response: the row selected at least one of the sub-variables
HasAnyResponse(row, sub_vars) == \E j \in 1..Len(sub_vars) : PdEq(row.val[sub_vars[j]], 1)

\* calculate_weighted_frequencies_multi(sub_data_dict), the dict holding the
\* columns sub_vars of the rows passed
calculate_weighted_frequencies_multi(calc, rows, sub_vars) ==
    LET all_rows == [k \in 1..Len(rows) |-> TRUE]
        total_weighted == WeightedSum(calc, rows, all_rows)
        has_any_response == [k \in 1..Len(rows) |-> HasAnyResponse(rows[k], sub_vars)]
        base_weighted == WeightedSum(calc, rows, has_any_response)
        Row(sub_var) ==
            LET mask == [k \in 1..Len(rows) |-> PdEq(rows[k].val[sub_var], 1)]
                weighted_count == WeightedSum(calc, rows, mask)
            IN  [sub_var |-> sub_var,
                 unweighted_count |-> CountTrue(mask),
                 weighted_count |-> weighted_count,
                 percentage |-> IF base_weighted > 0
                                THEN Frac(weighted_count * 100, base_weighted)
                                ELSE Frac(0, 1)]
    IN  [total_unweighted |-> Len(rows),
         total_weighted |-> total_weighted,
         base_unweighted |-> CountTrue(has_any_response),
         base_weighted |-> base_weighted,
         freq_table |-> [k \in 1..Len(sub_vars) |-> Row(sub_vars[k])]]

(***************************************************************************)
(* Configuration (meta.json)                                               *)
(***************************************************************************)
Single(name, value_labels, has_fs, fs) ==
    [name |-> name, type |-> "single", has_sub_variables |-> FALSE,
     sub_variables |-> <<>>, value_labels |-> value_labels,
     has_filter_set |-> has_fs, filter_set |-> fs]
Multi(name, sub_variables, has_fs, fs) ==
    [name |-> name, type |-> "multi", has_sub_variables |-> TRUE,
     sub_variables |-> sub_variables, value_labels |-> <<>>,
     has_filter_set |-> has_fs, filter_set |-> fs]

Q1Var == Single("Q1", <<>>, FALSE, "")
Q3Var == Multi("Q3", <<"Q3_1", "Q3_2">>, FALSE, "")

NoWeighting == [enabled |-> FALSE, weight_variable |-> ""]

\* the configuration of the runs that use the FilterEngine or the
\* WeightCalculator on their own
BaseConfig ==
    [variables |-> <<Q1Var, Q3Var>>, filter_sets |-> <<>>, global_filter |-> "",
     weighting |-> NoWeighting]

MpMap == _build_multi_punch_map(config.variables)

(***************************************************************************)
(* SPSSReader                                                              *)
(***************************************************************************)
\* get_value_labels(var_name): the labels of the column, None (<<>>) if none
get_value_labels(var_name) ==
    IF \E k \in 1..Len(reader_value_labels) : reader_value_labels[k].var = var_name
    THEN reader_value_labels[CHOOSE k \in 1..Len(reader_value_labels) :
                                reader_value_labels[k].var = var_name].labels
    ELSE <<>>

\* get_variable_label(var_name): no column labels are loaded, so the name
get_variable_label(var_name) == var_name

(***************************************************************************)
(* FrequencyProcessor                                                      *)
(***************************************************************************)
NoFilterInfo == [present |-> FALSE]
NoResult(w) == [present |-> FALSE, warnings |-> w]
Result(r, w) == [present |-> TRUE, result |-> r, warnings |-> w]

\* the row of an unweighted single-response table
UnweightedRow(value, label, count, total, is_missing) ==
    [value |-> value, label |-> label, count |-> count,
     percentage |-> IF total > 0 THEN Frac(count * 100, total) ELSE Frac(0, 1),
     is_missing |-> is_missing]

\* value_counts.get(value, 0)
ValueCount(series, value) == Cardinality({k \in 1..Len(series) : PdEq(series[k], value)})

\* ordered_values of _process_single_punch_unweighted
OrderedValuesUnweighted(series, labels) ==
    IF labels # <<>>
    THEN Keys(labels) \o sorted({v \in Observed(series) : ~Labelled(labels, v)})
    ELSE sorted(Observed(series))

\* the table without its Missing row
MissingRowDropped(series, total) == <<>>
\* the Missing row, appended last when the missing count is > 0
MissingRow(series, total) ==
    LET missing_count == Cardinality({k \in 1..Len(series) : isna(series[k])}) IN
    IF missing_count > 0
    THEN <<UnweightedRow(NaN, "Missing", missing_count, total, TRUE)>>
    ELSE <<>>

_process_single_punch_unweighted(var_name, df, filter_info, labels_arg) ==
    LET column_data == Series(df, var_name)
        labels == IF labels_arg = <<>> THEN get_value_labels(var_name) ELSE labels_arg
        total == Len(column_data)
        ordered_values == OrderedValuesUnweighted(column_data, labels)
        valid_rows ==
            [k \in 1..Len(ordered_values) |->
                LET value == ordered_values[k] IN
                UnweightedRow(value,
                              IF labels # <<>> /\ Labelled(labels, value)
                              THEN LabelOf(labels, value) ELSE str(value),
                              ValueCount(column_data, value), total, FALSE)]
    IN  [var_name |-> var_name, var_label |-> var_name, type |-> "single",
         weighted |-> FALSE,
         total_responses |-> total,
         valid_responses |-> SumSeq([k \in 1..Len(valid_rows) |-> valid_rows[k].count]),
         freq_table |-> valid_rows \o MissingRow(column_data, total),
         filter_info |-> filter_info]

\* the variable dropped when its weighted computation raises
SingleFallbackSkipped(var_name, df, filter_info, labels) ==
    NoResult(<<Warn("Error calculating weighted frequencies. Using unweighted.", var_name, 0)>>)
\* the except branch of process_single_punch: the warning and the
\* unweighted table
SingleFallback(var_name, df, filter_info, labels) ==
    Result(_process_single_punch_unweighted(var_name, df, filter_info, labels),
           <<Warn("Error calculating weighted frequencies. Using unweighted.", var_name, 0)>>)

process_single_punch(var_name, df, filter_info, json_value_labels) ==
    IF var_name \notin df.cols
    THEN NoResult(<<Warn("Variable not found in SPSS file. Skipped.", var_name, 0)>>)
    ELSE
    LET spss_value_labels == get_value_labels(var_name)
        labels == IF json_value_labels # <<>> THEN json_value_labels ELSE spss_value_labels
    IN  IF weighting_enabled
        THEN LET temp_calc == WeightCalculator(df, config.weighting.weight_variable) IN
             IF temp_calc.ok
             THEN LET valid_data == get_valid_data(temp_calc)
                      weighted_result ==
                          calculate_weighted_frequencies_single(
                              temp_calc, valid_data.rows, var_name, labels)
                  IN  Result([var_name |-> var_name, var_label |-> var_name,
                              type |-> "single", weighted |-> TRUE,
                              total_unweighted |-> weighted_result.total_unweighted,
                              total_weighted |-> weighted_result.total_weighted,
                              valid_unweighted |-> weighted_result.valid_unweighted,
                              valid_weighted |-> weighted_result.valid_weighted,
                              freq_table |-> weighted_result.freq_table,
                              filter_info |-> filter_info,
                              weight_info |-> temp_calc.validation_info], <<>>)
             ELSE SingleFallback(var_name, df, filter_info, labels)
        ELSE Result(_process_single_punch_unweighted(var_name, df, filter_info, labels), <<>>)

\* `if base == 0`: no respondent selected any option
BaseIsZero(base) == base = 0

_process_multi_punch_unweighted(var_name, sub_variables, df, filter_info) ==
    LET existing_vars == SelectSeq(sub_variables, LAMBDA sv : sv \in df.cols) IN
    IF existing_vars = <<>> THEN NoResult(<<>>)
    ELSE
    LET base == Cardinality({k \in 1..len(df) : HasAnyResponse(df.rows[k], existing_vars)})
    IN  IF BaseIsZero(base)
        THEN NoResult(<<Warn("No responses found. Skipped.", var_name, 0)>>)
        ELSE Result(
               [var_name |-> var_name, var_label |-> var_name, type |-> "multi",
                weighted |-> FALSE,
                base |-> base,
                total_respondents |-> len(df),
                freq_table |->
                   [k \in 1..Len(existing_vars) |->
                       LET sub_var == existing_vars[k]
                           count == Cardinality({j \in 1..len(df) :
                                                    PdEq(df.rows[j].val[sub_var], 1)})
                       IN  [sub_var |-> sub_var,
                            label |-> get_variable_label(sub_var),
                            count |-> count,
                            percentage |-> IF base > 0 THEN Frac(count * 100, base)
                                           ELSE Frac(0, 1)]],
                filter_info |-> filter_info], <<>>)

\* the weighted branch of process_multi_punch, the calculator built
WeightedMulti(var_name, existing_vars, df, filter_info, temp_calc) ==
    LET valid_data == get_valid_data(temp_calc)
        weighted_result ==
            calculate_weighted_frequencies_multi(temp_calc, valid_data.rows, existing_vars)
        labelled ==
            [k \in 1..Len(weighted_result.freq_table) |->
                LET row == weighted_result.freq_table[k] IN
                [sub_var |-> row.sub_var,
                 unweighted_count |-> row.unweighted_count,
                 weighted_count |-> row.weighted_count,
                 percentage |-> row.percentage,
                 label |-> get_variable_label(row.sub_var)]]
    IN  Result([var_name |-> var_name, var_label |-> var_name, type |-> "multi",
                weighted |-> TRUE,
                total_unweighted |-> weighted_result.total_unweighted,
                total_weighted |-> weighted_result.total_weighted,
                base_unweighted |-> weighted_result.base_unweighted,
                base_weighted |-> weighted_result.base_weighted,
                freq_table |-> labelled,
                filter_info |-> filter_info,
                weight_info |-> temp_calc.validation_info], <<>>)

process_multi_punch(var_name, sub_variables, df, filter_info) ==
    LET existing_vars == SelectSeq(sub_variables, LAMBDA sv : sv \in df.cols)
        missing_vars == SelectSeq(sub_variables, LAMBDA sv : sv \notin df.cols)
        w1 == IF missing_vars # <<>>
              THEN <<Warn("Sub-variables not found", var_name, Len(missing_vars))>>
              ELSE <<>>
    IN  IF existing_vars = <<>>
        THEN NoResult(w1 \o <<Warn("No sub-variables found. Skipped.", var_name, 0)>>)
        ELSE
        IF weighting_enabled
        THEN LET temp_calc == WeightCalculator(df, config.weighting.weight_variable) IN
             IF temp_calc.ok
             THEN LET r == WeightedMulti(var_name, existing_vars, df, filter_info, temp_calc)
                  IN  [r EXCEPT !.warnings = w1 \o @]
             ELSE LET r == _process_multi_punch_unweighted(var_name, sub_variables, df,
                                                           filter_info)
                  IN  [r EXCEPT !.warnings =
                          w1 \o <<Warn("Error calculating weighted frequencies. Using unweighted.",
                                       var_name, 0)>> \o @]
        ELSE LET r == _process_multi_punch_unweighted(var_name, sub_variables, df, filter_info)
             IN  [r EXCEPT !.warnings = w1 \o @]

\* filter_sets: the dict name -> Filter Set as the sequence of its items
HasFilterSet(filter_sets, name) == \E k \in 1..Len(filter_sets) : filter_sets[k].name = name
FilterSetGet(filter_sets, name) ==
    filter_sets[CHOOSE k \in 1..Len(filter_sets) : filter_sets[k].name = name].conditions

\* the priority reversed: the global filter before the variable's filter_set
DetermineFilterGlobalFirst(var_config) ==
    IF config.global_filter # "" THEN config.global_filter
    ELSE IF var_config.has_filter_set THEN var_config.filter_set
    ELSE ""

\* _determine_filter: variable filter_set > global_filter > none ("")
_determine_filter(var_config) ==
    IF var_config.has_filter_set THEN var_config.filter_set
    ELSE IF config.global_filter # "" THEN config.global_filter
    ELSE ""

\* the rest of _apply_filter, r being what apply_filter_set returned or raised
FilterOutcome(filter_set_name, r) ==
    IF r.ok
    THEN [filtered_data |-> r.filtered_data,
          filter_info |-> [present |-> TRUE, name |-> filter_set_name,
                           summary |-> r.filter_summary, stats |-> r.stats,
                           is_global |-> filter_set_name = config.global_filter],
          warnings |-> <<>>]
    ELSE [filtered_data |-> data, filter_info |-> NoFilterInfo,
          warnings |-> <<Warn("Error applying filter", filter_set_name, 0)>>]

\* _apply_filter(filter_set_name): the table to tabulate, the filter info and
\* the warnings added
_apply_filter(filter_set_name) ==
    IF ~HasFilterSet(config.filter_sets, filter_set_name)
    THEN [filtered_data |-> data, filter_info |-> NoFilterInfo,
          warnings |-> <<Warn("Filter set not found in configuration", filter_set_name, 0)>>]
    ELSE FilterOutcome(filter_set_name,
                       apply_filter_set(data, _build_multi_punch_map(config.variables),
                                        FilterSetGet(config.filter_sets, filter_set_name)))

SmallSample == 30

\* `if filter_to_use: ... else: filtered_data = self.reader.get_data()`
FilteredFor(filter_to_use) ==
    IF filter_to_use # "" THEN _apply_filter(filter_to_use)
    ELSE [filtered_data |-> data, filter_info |-> NoFilterInfo, warnings |-> <<>>]

\* the tabulation of one variable by its type
Tabulate(var_config, f) ==
    CASE var_config.type = "single" ->
            process_single_punch(var_config.name, f.filtered_data,
                                 f.filter_info, var_config.value_labels)
      [] var_config.type = "multi" ->
            process_multi_punch(var_config.name, var_config.sub_variables,
                                f.filtered_data, f.filter_info)
      [] OTHER -> NoResult(<<Warn("Unknown variable type", var_config.name, 0)>>)

\* the warnings of the filter step, with the one about a sample under 30
FilterWarnings(var_config, filter_to_use, f) ==
    IF filter_to_use # "" /\ len(f.filtered_data) < SmallSample
    THEN f.warnings \o <<Warn("Small sample size", var_config.name, len(f.filtered_data))>>
    ELSE f.warnings

\* the body of the loop of process_all_variables for one variable, f being
\* the outcome of the filter step
ProcessFiltered(var_config, filter_to_use, f) ==
    IF filter_to_use # "" /\ len(f.filtered_data) = 0
    THEN NoResult(f.warnings
                  \o <<Warn("skipped: Filter resulted in 0 respondents",
                            var_config.name, 0)>>)
    ELSE [Tabulate(var_config, f) EXCEPT
             !.warnings = FilterWarnings(var_config, filter_to_use, f) \o @]

\* the body of the loop of process_all_variables for one variable
ProcessVariable(var_config) ==
    ProcessFiltered(var_config, _determine_filter(var_config),
                    FilteredFor(_determine_filter(var_config)))

\* `if result: self.results.append(result)`, with the warnings recorded;
\* acc is self.results and self.warnings
Collect(acc, r) ==
    [results |-> IF r.present THEN Append(acc.results, r.result) ELSE acc.results,
     warnings |-> acc.warnings \o r.warnings]

\* process_all_variables(variables_config): self.results and self.warnings
\* after the loop over the variables
RECURSIVE process_all_variables(_, _)
process_all_variables(variables_config, acc) ==
    IF variables_config = <<>> THEN acc
    ELSE process_all_variables(Tail(variables_config),
                               Collect(acc, ProcessVariable(variables_config[1])))

\* _initialize_weighting, run by __init__ when weighting is enabled: the flag
\* weighting_enabled and the warnings after it
_initialize_weighting(df, weighting_config) ==
    IF weighting_config.weight_variable = ""
    THEN [weighting_enabled |-> FALSE,
          warnings |-> <<Warn("Weighting enabled but no weight_variable specified", "", 0)>>]
    ELSE LET calc == WeightCalculator(df, weighting_config.weight_variable) IN
         IF calc.ok
         THEN [weighting_enabled |-> TRUE, warnings |-> calc.warnings]
         ELSE [weighting_enabled |-> FALSE,
               warnings |-> <<Warn("Failed to initialize weighting", calc.error, 0)>>]

\* FrequencyProcessor.__init__
NewProcessor(df, cfg) ==
    IF cfg.weighting.enabled THEN _initialize_weighting(df, cfg.weighting)
    ELSE [weighting_enabled |-> FALSE, warnings |-> <<>>]

(***************************************************************************)
(* dash_app: the tabulation behind the update_charts callback              *)
(***************************************************************************)
\* freq_table.sort(key=lambda x: (x['is_missing'], -x['count'])) over the rows
\* of value_counts: the orders the sort can leave, rows of equal key in
\* either order (value_counts does not fix the order of equal counts)
SortedByCount(rowset) ==
    LET n == Cardinality(rowset)
        Before(a, b) == (~a.is_missing /\ b.is_missing)
                        \/ (a.is_missing = b.is_missing /\ a.count >= b.count)
    IN  {t \in [1..n -> rowset] :
            /\ \A a, b \in 1..n : a # b => t[a] # t[b]
            /\ \A a \in 1..n : \A b \in a + 1..n : Before(t[a], t[b])}

\* the unweighted single-response results _process_single_variable can return
DashSingleUnweighted(df, var_name, filter_info, weighting_warning) ==
    LET column_data == Series(df, var_name)
        labels == get_value_labels(var_name)
        total == Len(column_data)
        rowset ==
            {UnweightedRow(value,
                           IF isna(value) THEN "Missing"
                           ELSE IF labels # <<>> /\ Labelled(labels, value)
                                THEN LabelOf(labels, value) ELSE str(value),
                           Cardinality({k \in 1..total : column_data[k] = value}),
                           total, isna(value)) : value \in Range(column_data)}
        valid_total == Cardinality({k \in 1..total : notna(column_data[k])})
    IN  {[var_name |-> var_name, var_label |-> var_name, type |-> "single",
          weighted |-> FALSE,
          total_responses |-> total,
          valid_responses |-> valid_total,
          freq_table |-> freq_table,
          filter_info |-> filter_info,
          weighting_warning |-> weighting_warning] : freq_table \in SortedByCount(rowset)}

\* _process_single_variable: the results it can return, {} for None
_process_single_variable(df, var_name, filter_info) ==
    IF var_name \notin df.cols THEN {}
    ELSE
    IF config.weighting.enabled
    THEN LET temp_calc == WeightCalculator(df, config.weighting.weight_variable) IN
         IF temp_calc.ok
         THEN LET valid_data == get_valid_data(temp_calc)
                  weighted_result ==
                      calculate_weighted_frequencies_single(
                          temp_calc, valid_data.rows, var_name, get_value_labels(var_name))
              IN  {[var_name |-> var_name, var_label |-> var_name, type |-> "single",
                    weighted |-> TRUE,
                    total_unweighted |-> weighted_result.total_unweighted,
                    total_weighted |-> weighted_result.total_weighted,
                    valid_unweighted |-> weighted_result.valid_unweighted,
                    valid_weighted |-> weighted_result.valid_weighted,
                    freq_table |-> weighted_result.freq_table,
                    filter_info |-> filter_info,
                    weight_info |-> temp_calc.validation_info,
                    weighting_warning |-> ""]}
         ELSE DashSingleUnweighted(df, var_name, filter_info, temp_calc.error)
    ELSE DashSingleUnweighted(df, var_name, filter_info, "")

\* freq_table.sort(key=lambda x: -x['count']): a stable sort, by insertion
RECURSIVE SortByCountStable(_)
SortByCountStable(rows) ==
    IF rows = <<>> THEN <<>>
    ELSE LET rest == SortByCountStable(Tail(rows))
             ahead == SelectSeq(rest, LAMBDA r : r.count > rows[1].count)
             behind == SelectSeq(rest, LAMBDA r : r.count <= rows[1].count)
         IN  ahead \o <<rows[1]>> \o behind

DashMultiUnweighted(df, var_name, existing_vars, base, filter_info, weighting_warning) ==
    [var_name |-> var_name, var_label |-> var_name, type |-> "multi",
     weighted |-> FALSE,
     base |-> base,
     total_respondents |-> len(df),
     freq_table |->
        SortByCountStable(
           [k \in 1..Len(existing_vars) |->
               LET sub_var == existing_vars[k]
                   count == Cardinality({j \in 1..len(df) : PdEq(df.rows[j].val[sub_var], 1)})
               IN  [sub_var |-> sub_var,
                    label |-> get_variable_label(sub_var),
                    count |-> count,
                    percentage |-> IF base > 0 THEN Frac(count * 100, base) ELSE Frac(0, 1)]]),
     filter_info |-> filter_info,
     weighting_warning |-> weighting_warning]

\* _process_multi_variable: the results it can return, {} for None
_process_multi_variable(df, var_name, sub_variables, filter_info) ==
    LET existing_vars == SelectSeq(sub_variables, LAMBDA sv : sv \in df.cols) IN
    IF existing_vars = <<>> THEN {}
    ELSE
    LET base == Cardinality({k \in 1..len(df) : HasAnyResponse(df.rows[k], existing_vars)})
    IN  IF base = 0 THEN {}
        ELSE
        IF config.weighting.enabled
        THEN LET temp_calc == WeightCalculator(df, config.weighting.weight_variable) IN
             IF temp_calc.ok
             THEN LET r == WeightedMulti(var_name, existing_vars, df, filter_info, temp_calc).result
                  IN  {[var_name |-> r.var_name, var_label |-> r.var_label, type |-> r.type,
                        weighted |-> TRUE,
                        total_unweighted |-> r.total_unweighted,
                        total_weighted |-> r.total_weighted,
                        base_unweighted |-> r.base_unweighted,
                        base_weighted |-> r.base_weighted,
                        freq_table |-> r.freq_table,
                        filter_info |-> filter_info,
                        weight_info |-> r.weight_info,
                        weighting_warning |-> ""]}
             ELSE {DashMultiUnweighted(df, var_name, existing_vars, base, filter_info,
                                       temp_calc.error)}
        ELSE {DashMultiUnweighted(df, var_name, existing_vars, base, filter_info, "")}

\* the loop of update_charts over the selected variable indexes (0-based):
\* the chart cards it can build, each card carrying its result
RECURSIVE ChartCards(_, _, _)
ChartCards(selected_variables, filtered_data, filter_info) ==
    IF selected_variables = <<>> THEN {<<>>}
    ELSE LET var_idx == selected_variables[1]
             rest == ChartCards(Tail(selected_variables), filtered_data, filter_info)
         IN  IF var_idx >= Len(config.variables) THEN rest
             ELSE LET var_config == config.variables[var_idx + 1]
                      rs == CASE var_config.type = "single" ->
                                   _process_single_variable(filtered_data, var_config.name,
                                                            filter_info)
                              [] var_config.type = "multi" ->
                                   _process_multi_variable(filtered_data, var_config.name,
                                                           var_config.sub_variables,
                                                           filter_info)
                              [] OTHER -> {}
                  IN  IF rs = {} THEN rest
                      ELSE {<<r>> \o t : r \in rs, t \in rest}

\* update_charts(selected_filter, selected_variables, theme): the lists of
\* chart cards it can return (the empty list stands for the no-data message)
update_charts(selected_filter, selected_variables) ==
    LET filter_name == IF selected_filter # "__none__" THEN selected_filter ELSE ""
        filter_conditions ==
            IF filter_name # "" /\ HasFilterSet(config.filter_sets, filter_name)
            THEN FilterSetGet(config.filter_sets, filter_name) ELSE <<>>
        r == apply_filter_set(data, _build_multi_punch_map(config.variables),
                              filter_conditions)
        filtered == filter_conditions # <<>> /\ r.ok
    IN  ChartCards(selected_variables,
                   IF filtered THEN r.filtered_data ELSE data,
                   IF filtered
                   THEN [present |-> TRUE, name |-> filter_name,
                         summary |-> r.filter_summary, stats |-> r.stats,
                         is_global |-> filter_name = config.global_filter]
                   ELSE NoFilterInfo)

(***************************************************************************)
(* OutputWriter: the text report.  A line is modelled by its kind, its     *)
(* fixed text and the values it prints; the labels of the model are        *)
(* shorter than the wrapping width                                         *)
(***************************************************************************)
Line(kind, text, values) == [kind |-> kind, text |-> text, values |-> values]
Rule == Line("rule", "-", <<>>)

\* _format_condition(condition)
_format_condition(condition) ==
    LET operator == condition[1].op
        value == condition[1]
    IN  CASE operator = "eq" -> Line("condition", "=", <<value.val>>)
          [] operator = "in" -> Line("condition", "IN", value.vals)
          [] operator = "between" -> Line("condition", "BETWEEN AND", value.vals)
          [] operator = "not_missing" -> Line("condition", "Not Missing", <<>>)
          [] operator = "any" -> Line("condition", "Selected ANY of", value.subs)
          [] operator = "all" -> Line("condition", "Selected ALL of", value.subs)
          [] operator = "min_selected" ->
                Line("condition", "Selected at least option(s)", <<value.val>>)
          [] OTHER -> Line("condition", operator, <<value.val>>)

\* the frequency rows of the unweighted tables
CountRows(freq_table) ==
    [k \in 1..Len(freq_table) |->
        Line("row", freq_table[k].label,
             <<freq_table[k].count, freq_table[k].percentage>>)]

\* the frequency rows of the weighted tables
WeightedRows(freq_table) ==
    [k \in 1..Len(freq_table) |->
        Line("row", freq_table[k].label,
             <<freq_table[k].unweighted_count, freq_table[k].weighted_count,
               freq_table[k].percentage>>)]

_write_single_punch_text(result) ==
    <<Line("text", "Total Responses", <<result.total_responses>>),
      Line("text", "Valid Responses", <<result.valid_responses>>),
      Line("header", "Value Count Percentage", <<>>), Rule>>
    \o CountRows(result.freq_table)
    \o <<Rule, Line("total", "TOTAL", <<result.total_responses, "100.0%">>)>>

_write_single_punch_weighted_text(result) ==
    <<Line("text", "Total Responses", <<result.total_unweighted, result.total_weighted>>),
      Line("text", "Valid Responses", <<result.valid_unweighted, result.valid_weighted>>),
      Line("header", "Value Unweighted Weighted Percentage", <<>>), Rule>>
    \o WeightedRows(result.freq_table)
    \o <<Rule, Line("total", "TOTAL",
                    <<result.total_unweighted, result.total_weighted, "100.0%">>)>>

_write_multi_punch_text(result) ==
    <<Line("text", "Total Respondents", <<result.total_respondents>>),
      Line("text", "Base (selected at least one)", <<result.base>>),
      Line("text", "Percentages calculated on base of", <<result.base>>),
      Line("header", "Option Count Percentage", <<>>), Rule>>
    \o CountRows(result.freq_table)
    \o <<Rule>>

_write_multi_punch_weighted_text(result) ==
    <<Line("text", "Total Respondents", <<result.total_unweighted, result.total_weighted>>),
      Line("text", "Base (selected at least one)",
           <<result.base_unweighted, result.base_weighted>>),
      Line("text", "Percentages calculated on base (weighted) of", <<result.base_weighted>>),
      Line("header", "Option Unweighted Weighted Percentage", <<>>), Rule>>
    \o WeightedRows(result.freq_table)
    \o <<Rule,
         Line("note",
              "Note: Percentages sum to >100% as respondents could select multiple options",
              <<>>)>>

\* the filter lines of _write_single_result_text
FilterLines(filter_info) ==
    IF filter_info.present
    THEN <<Line("text", IF filter_info.is_global THEN "Filter (Global)" ELSE "Filter",
                <<filter_info.name>>)>>
         \o (IF filter_info.summary # <<>>
             THEN <<Line("text", "Filter Details", <<>>)>>
                  \o [k \in 1..Len(filter_info.summary) |->
                         Line("detail", filter_info.summary[k].var,
                              <<filter_info.summary[k].description>>)]
             ELSE <<>>)
         \o <<Line("text", "Dataset",
                   <<filter_info.stats.original_count, filter_info.stats.filtered_count>>)>>
         \o (IF filter_info.stats.filtered_count < SmallSample
             THEN <<Line("text", "WARNING: Small sample size",
                         <<filter_info.stats.filtered_count>>)>>
             ELSE <<>>)
    ELSE <<Line("text", "Filter: NONE (All respondents)", <<>>)>>

\* the weighting statistics of _write_single_result_text
WeightingLines(result) ==
    IF result.weighted
    THEN <<Line("text", "Weighting Statistics", <<>>),
           Line("text", "Respondents with valid weights",
                <<result.weight_info.valid_count>>
                \o (IF result.weight_info.excluded_count > 0
                    THEN <<result.weight_info.excluded_count>> ELSE <<>>)),
           Line("text", "Sum of weights", <<result.weight_info.sum_weights>>),
           Line("text", "Effective sample size (ESS)", <<result.weight_info.ess>>),
           Line("text", "Design effect (DEFF)", <<result.weight_info.deff>>)>>
    ELSE <<>>

\* _write_single_result_text(f, result, index): the lines written
_write_single_result_text(result, index) ==
    <<Line("title", result.var_label, <<index>>),
      Line("text", "Variable Type", <<result.var_name, result.type>>),
      Line("text", IF result.weighted THEN "Weighting: ENABLED" ELSE "Weighting: DISABLED",
           <<>>)>>
    \o FilterLines(result.filter_info)
    \o <<Rule>>
    \o WeightingLines(result)
    \o (CASE result.type = "single" /\ result.weighted ->
                _write_single_punch_weighted_text(result)
          [] result.type = "single" /\ ~result.weighted -> _write_single_punch_text(result)
          [] result.type = "multi" /\ result.weighted ->
                _write_multi_punch_weighted_text(result)
          [] result.type = "multi" /\ ~result.weighted -> _write_multi_punch_text(result)
          [] OTHER -> <<>>)

\* the header of the report: the global filter and its conditions
ReportHeader ==
    IF config.global_filter # "" /\ HasFilterSet(config.filter_sets, config.global_filter)
    THEN <<Line("text", "Global Filter", <<config.global_filter>>)>>
         \o [k \in 1..Len(FilterSetGet(config.filter_sets, config.global_filter)) |->
                _format_condition(FilterSetGet(config.filter_sets,
                                               config.global_filter)[k].ops)]
    ELSE <<>>

\* _write_text(results, warnings, filter_sets): the report written
_write_text(res, warns) ==
    [header |-> ReportHeader,
     warnings |-> warns,
     tables |-> [k \in 1..Len(res) |-> _write_single_result_text(res[k], k)],
     footer |-> Len(res)]

(***************************************************************************)
(* ConfigLoader: the validation of a filter condition.  A configuration    *)
(* with a validation error is refused by the export and by the dashboard   *)
(***************************************************************************)
valid_operators == {"eq", "in", "between", "not_missing", "any", "all", "min_selected"}

\* the variable is found in the variables list with type 'multi'
var_found(var_name) ==
    \E k \in 1..Len(config.variables) :
        config.variables[k].name = var_name /\ config.variables[k].type = "multi"

\* _validate_filter_condition(filter_name, var_name, condition): the errors
_validate_filter_condition(var_name, condition) ==
    IF Len(condition) # 1 THEN <<"condition must have exactly one operator">>
    ELSE LET operator == condition[1].op
             value == condition[1]
         IN  IF operator \notin valid_operators THEN <<"unknown operator">>
             ELSE CASE operator = "between" ->
                         IF Len(value.vals) # 2
                         THEN <<"operator 'between' requires a list of 2 values">> ELSE <<>>
                    [] operator = "not_missing" ->
                         IF value.val # 1
                         THEN <<"operator 'not_missing' requires value=true">> ELSE <<>>
                    [] operator = "min_selected" ->
                         (IF value.val < 1
                          THEN <<"operator 'min_selected' requires a positive integer">>
                          ELSE <<>>)
                         \o (IF ~var_found(var_name)
                             THEN <<"operator 'min_selected' used but variable not defined as type='multi'">>
                             ELSE <<>>)
                    [] OTHER -> <<>>

\* an error message: its fixed text, the name it prints (variable or filter
\* set) and the condition's variable, "" where it prints none
Error(text, name, var) == [text |-> text, name |-> name, var |-> var]

\* _validate_variable(var, index) for a variable that has the 'name' and
\* 'type' keys
_validate_variable(var) ==
    (IF var.type \notin {"single", "multi"}
     THEN <<Error("'type' must be 'single' or 'multi'", var.name, "")>> ELSE <<>>)
    \o (IF var.type = "multi" /\ ~var.has_sub_variables
        THEN <<Error("'multi' type requires 'sub_variables' field", var.name, "")>>
        ELSE <<>>)

\* `for i, var in enumerate(self.config['variables'])` of validate
RECURSIVE VariableErrors(_)
VariableErrors(variables) ==
    IF variables = <<>> THEN <<>>
    ELSE _validate_variable(Head(variables)) \o VariableErrors(Tail(variables))

\* `for var_name, condition in filter_conditions.items()`
RECURSIVE ConditionErrors(_, _)
ConditionErrors(filter_name, filter_conditions) ==
    IF filter_conditions = <<>> THEN <<>>
    ELSE LET c == Head(filter_conditions)
             e == _validate_filter_condition(c.var, c.ops)
         IN  [k \in 1..Len(e) |-> Error(e[k], filter_name, c.var)]
             \o ConditionErrors(filter_name, Tail(filter_conditions))

\* _validate_filter_sets() on the dictionary of Filter Sets
RECURSIVE _validate_filter_sets(_)
_validate_filter_sets(filter_sets) ==
    IF filter_sets = <<>> THEN <<>>
    ELSE ConditionErrors(Head(filter_sets).name, Head(filter_sets).conditions)
         \o _validate_filter_sets(Tail(filter_sets))

\* the filter_set references of the variables
RECURSIVE ReferenceErrors(_)
ReferenceErrors(variables) ==
    IF variables = <<>> THEN <<>>
    ELSE (IF Head(variables).has_filter_set
             /\ \A k \in 1..Len(config.filter_sets) :
                   config.filter_sets[k].name # Head(variables).filter_set
          THEN <<Error("filter_set not found in filter_sets", Head(variables).name, "")>>
          ELSE <<>>)
         \o ReferenceErrors(Tail(variables))

\* ConfigLoader._validate_weighting() for a weighting block that has a boolean
\* 'enabled' and a string 'weight_variable'
ConfigLoader_validate_weighting ==
    IF config.weighting.enabled /\ config.weighting.weight_variable = ""
    THEN <<Error("Weighting 'weight_variable' cannot be empty", "", "")>>
    ELSE <<>>

\* ConfigLoader.validate(): the error messages (is_valid is their absence);
\* the output directory is taken to exist
ConfigLoader_validate ==
    VariableErrors(config.variables)
    \o _validate_filter_sets(config.filter_sets)
    \o ReferenceErrors(config.variables)
    \o ConfigLoader_validate_weighting

(***************************************************************************)
(* SPSSMetaValidator: the configuration against the loaded file            *)
(***************************************************************************)
spss_columns == data.cols

\* _check_empty_column(column_name)
_check_empty_column(column_name) ==
    IF column_name \notin data.cols THEN TRUE
    ELSE \A k \in 1..len(data) : isna(data.rows[k].val[column_name])

\* the body of the loop of _validate_variables for one variable
ValidateVariable(var) ==
    IF var.name = ""
    THEN [errors |-> <<Error("Missing 'name' field", "", "")>>, warnings |-> <<>>]
    ELSE IF var.type = ""
    THEN [errors |-> <<Error("Missing 'type' field", var.name, "")>>, warnings |-> <<>>]
    ELSE IF var.type = "single"
    THEN IF var.name \notin spss_columns
         THEN [errors |-> <<Error("Single-punch variable not found in SPSS file",
                                  var.name, "")>>,
               warnings |-> <<>>]
         ELSE [errors |-> <<>>,
               warnings |-> IF _check_empty_column(var.name)
                            THEN <<Warn("exists but contains no data", var.name, 0)>>
                            ELSE <<>>]
    ELSE IF var.type = "multi"
    THEN IF var.sub_variables = <<>>
         THEN [errors |-> <<Error("Missing 'sub_variables'", var.name, "")>>,
               warnings |-> <<>>]
         ELSE IF \E k \in 1..Len(var.sub_variables) : var.sub_variables[k] \notin spss_columns
         THEN [errors |-> <<Error("sub-variables not found", var.name, "")>>,
               warnings |-> <<>>]
         ELSE [errors |-> <<>>,
               warnings |-> IF \A k \in 1..Len(var.sub_variables) :
                                  _check_empty_column(var.sub_variables[k])
                            THEN <<Warn("all sub-variables exist but contain no data",
                                        var.name, 0)>>
                            ELSE <<>>]
    ELSE [errors |-> <<>>, warnings |-> <<Warn("Unknown type", var.name, 0)>>]

RECURSIVE ValidateVariables(_)
ValidateVariables(variables) ==
    IF variables = <<>> THEN [errors |-> <<>>, warnings |-> <<>>]
    ELSE LET h == ValidateVariable(Head(variables))
             t == ValidateVariables(Tail(variables))
         IN  [errors |-> h.errors \o t.errors, warnings |-> h.warnings \o t.warnings]

\* SPSSMetaValidator._validate_variables()
_validate_variables ==
    IF config.variables = <<>>
    THEN [errors |-> <<>>, warnings |-> <<Warn("No variables defined in meta.json", "", 0)>>]
    ELSE ValidateVariables(config.variables)

\* `for var_name in conditions.keys()`: a key that is no column is an error
RECURSIVE FilterKeyErrors(_, _)
FilterKeyErrors(filter_name, conditions) ==
    IF conditions = <<>> THEN <<>>
    ELSE (IF Head(conditions).var \notin spss_columns
          THEN <<Error("variable not found in SPSS file", filter_name,
                       Head(conditions).var)>>
          ELSE <<>>)
         \o FilterKeyErrors(filter_name, Tail(conditions))

RECURSIVE ValidateFilterSets(_)
ValidateFilterSets(filter_sets) ==
    IF filter_sets = <<>> THEN [errors |-> <<>>, warnings |-> <<>>]
    ELSE LET t == ValidateFilterSets(Tail(filter_sets)) IN
         IF Head(filter_sets).conditions = <<>>
         THEN [errors |-> t.errors,
               warnings |-> <<Warn("No conditions defined", Head(filter_sets).name, 0)>>
                            \o t.warnings]
         ELSE [errors |-> FilterKeyErrors(Head(filter_sets).name,
                                          Head(filter_sets).conditions) \o t.errors,
               warnings |-> t.warnings]

\* SPSSMetaValidator._validate_filters()
_validate_filters ==
    LET t == ValidateFilterSets(config.filter_sets) IN
    [errors |-> (IF config.global_filter # ""
                    /\ \A k \in 1..Len(config.filter_sets) :
                          config.filter_sets[k].name # config.global_filter
                 THEN <<Error("Global filter is not defined in filter_sets",
                              config.global_filter, "")>>
                 ELSE <<>>) \o t.errors,
     warnings |-> t.warnings]

\* SPSSMetaValidator._validate_weighting()
SPSSMetaValidator_validate_weighting ==
    LET weight_var == config.weighting.weight_variable
        weight_data == Series(data, weight_var)
    IN  IF ~config.weighting.enabled THEN [errors |-> <<>>, warnings |-> <<>>]
        ELSE IF weight_var = ""
        THEN [errors |-> <<Error("Weighting is enabled but 'weight_variable' is not specified",
                                 "", "")>>,
              warnings |-> <<>>]
        ELSE IF weight_var \notin spss_columns
        THEN [errors |-> <<Error("Weight variable not found in SPSS file", weight_var, "")>>,
              warnings |-> <<>>]
        ELSE IF \A k \in 1..Len(weight_data) : isna(weight_data[k])
        THEN [errors |-> <<Error("Weight variable contains only missing values",
                                 weight_var, "")>>,
              warnings |-> <<>>]
        ELSE IF \A k \in 1..Len(weight_data) : PdLe(weight_data[k], 0)
        THEN [errors |-> <<Error("Weight variable contains only zero or negative values",
                                 weight_var, "")>>,
              warnings |-> <<>>]
        ELSE [errors |-> <<>>,
              warnings |-> IF \E k \in 1..Len(weight_data) : PdLe(weight_data[k], 0)
                           THEN <<Warn("Weight variable contains zero or negative values",
                                       weight_var, 0)>>
                           ELSE <<>>]

\* _validate_best_practices(): the configuration gives no 'label' and the
\* output directory is taken to exist
_validate_best_practices ==
    IF config.variables = <<>> THEN <<>>
    ELSE <<Warn("variable(s) missing 'label' field", "", Len(config.variables))>>
         \o (IF \E j, k \in 1..Len(config.variables) :
                   j # k /\ config.variables[j].name = config.variables[k].name
             THEN <<Warn("Duplicate variable names found", "", 0)>>
             ELSE <<>>)

\* steps 4 to 7 of validate, after a configuration without loader errors
ValidateAgainstFile(var, filter, weight) ==
    [is_valid |-> var.errors \o filter.errors \o weight.errors = <<>>,
     errors |-> var.errors \o filter.errors \o weight.errors,
     warnings |-> var.warnings \o filter.warnings \o weight.warnings
                  \o _validate_best_practices]

\* SPSSMetaValidator.validate() once both files exist and the file is read:
\* _load_config (ConfigLoader.validate), then the checks against the file
SPSSMetaValidator_validate ==
    IF ConfigLoader_validate # <<>>
    THEN [is_valid |-> FALSE, errors |-> ConfigLoader_validate, warnings |-> <<>>]
    ELSE ValidateAgainstFile(_validate_variables, _validate_filters,
                             SPSSMetaValidator_validate_weighting)

(***************************************************************************)
(* DashboardLauncher: the window that starts and stops the dashboard       *)
(* subprocess.  Button handlers and root.after callbacks run one at a time *)
(* on the Tk main thread; every launch starts a _monitor_process thread    *)
(***************************************************************************)
None == 0

\* __init__ and _build_ui: nothing runs, Launch enabled, Stop Server disabled
LauncherInit ==
    /\ is_running = FALSE
    /\ dash_process = None
    /\ launch_btn = "normal"
    /\ shutdown_btn = "disabled"
    /\ alive = {}
    /\ monitor = <<>>
    /\ pending = 0
    /\ launched = 0

(***************************************************************************)
(* Specification SpecFilter: the FilterEngine over a loaded table          *)
(***************************************************************************)
StdDom == [c \in {"Q1", "Q2"} |-> {NaN, 1, 2}]
MultiDom == [c \in {"Q3_1", "Q3_2"} |-> IF c = "Q3_1" THEN {NaN, 0, 1} ELSE {0, 1}]

ConditionPool ==
    { eq("Q1", 1), eq("Q1", NaN), in("Q1", <<1, NaN>>), in("Q1", <<2>>),
      between("Q1", <<1, 2>>), between("Q1", <<NaN, 2>>), between("Q1", <<2>>),
      not_missing("Q1"),
      any("Q3", <<"Q3_1", "Q3_2">>), all("Q3", <<"Q3_1", "Q3_2">>),
      any("Q3", <<"Q3_1">>), all("Q3", <<>>),
      min_selected("Q3", 0), min_selected("Q3", 1), min_selected("Q3", 2),
      min_selected("Q3", 3), min_selected("Q1", 1),
      Cond("Q1", "gt", 1, <<>>, <<>>) }

FilterSetPool ==
    { <<>>,
      <<eq("Q1", 1)>>,
      <<in("Q1", <<1, NaN>>)>>,
      <<eq("Q1", 1), eq("Q2", 2)>>,
      <<not_missing("Q2"), between("Q1", <<2, 2>>)>>,
      <<in("Q2", <<1, 2>>), eq("Q1", 2)>>,
      <<any("Q3", <<"Q3_1", "Q3_2">>)>>,
      <<min_selected("Q3", 1), eq("Q3_2", 0)>>,
      <<all("Q3", <<"Q3_1", "Q3_2">>), not_missing("Q3_1")>>,
      <<eq("Q1", 1), eq("Q9", 1)>>,
      <<eq("Q1", 1), eq("Q9", 1), not_missing("Q1")>> }

NoOut == [op |-> "none"]

InitFilter ==
    /\ \/ IsTable(data, {"Q1"}, StdDom, MaxRowsStd)
       \/ IsTable(data, {"Q1", "Q2"}, StdDom, MaxRowsAnd)
       \/ IsTable(data, {"Q3_1", "Q3_2"}, MultiDom, MaxRowsMulti)
    /\ reader_value_labels = <<>>
    /\ config = BaseConfig
    /\ weighting_enabled = FALSE
    /\ results = <<>>
    /\ warnings = <<>>
    /\ calls = 0
    /\ out = NoOut
    /\ LauncherInit

\* FilterEngine(data, variables)._apply_condition(var_name, condition).
\* No method of the engine writes a field of the engine, so a call does not
\* depend on the calls before it: a run makes one call on the loaded table.
ApplyCondition ==
    /\ out.op = "none"
    /\ \E c \in ConditionPool :
          out' = [op |-> "_apply_condition", condition |-> c,
                  r |-> _apply_condition(data, MpMap, c.var, c.ops)]
    /\ UNCHANGED <<readerVars, processorVars, launcherVars>>

\* FilterEngine(data, variables).apply_filter_set(name, filter_conditions)
ApplyFilterSet ==
    /\ out.op = "none"
    /\ \E fc \in FilterSetPool :
          out' = [op |-> "apply_filter_set", filter_conditions |-> fc,
                  r |-> apply_filter_set(data, MpMap, fc)]
    /\ UNCHANGED <<readerVars, processorVars, launcherVars>>

\* get_filter_info on what apply_filter_set returned
GetFilterInfo ==
    /\ out.op = "apply_filter_set"
    /\ out.r.ok
    /\ out' = [op |-> "get_filter_info", filter_conditions |-> out.filter_conditions,
               r |-> get_filter_info("fs", out.r.filter_summary, out.r.stats)]
    /\ UNCHANGED <<readerVars, processorVars, launcherVars>>

\* ConfigLoader.validate on a configuration whose Filter Set holds the
\* condition: the errors of _validate_filter_condition for it
ValidateFilterCondition ==
    /\ out.op = "none"
    /\ \E c \in ConditionPool :
          out' = [op |-> "_validate_filter_condition", condition |-> c,
                  errors |-> _validate_filter_condition(c.var, c.ops)]
    /\ UNCHANGED <<readerVars, processorVars, launcherVars>>

NextFilter == ApplyCondition \/ ApplyFilterSet \/ GetFilterInfo \/ ValidateFilterCondition

SpecFilter == InitFilter /\ [][NextFilter]_vars

(***************************************************************************)
(* Specification SpecFreq: a FrequencyProcessor built on a loaded table    *)
(* and configuration (the launcher's export), and the dashboard's          *)
(* update_charts callback on the same table and configuration              *)
(***************************************************************************)
FreqDom ==
    [c \in {"Q1", "Q3_1", "Q3_2", "WEIGHT"} |->
        CASE c = "Q1" -> {NaN, 1, 2}
          [] c = "WEIGHT" -> {0, 1, 2}
          [] OTHER -> {0, 1}]
MultiFreqDom == [c \in {"Q3_1", "Q3_2", "WEIGHT"} |-> {0, 1}]
MixedDom == [c \in {"Q1", "Q3_1", "WEIGHT"} |-> IF c = "Q1" THEN {1, 2} ELSE {0, 1}]

MaleFemale == <<[value |-> 1, label |-> "Male"], [value |-> 2, label |-> "Female"]>>
OtherFemaleMale ==
    <<[value |-> 3, label |-> "Other"], [value |-> 2, label |-> "Female"],
      [value |-> 1, label |-> "Male"]>>

FilterSets ==
    <<[name |-> "males", conditions |-> <<eq("Q1", 1)>>],
      [name |-> "sel1", conditions |-> <<any("Q3", <<"Q3_1">>)>>],
      [name |-> "empty", conditions |-> <<>>]>>

Weighting(wv) == [enabled |-> TRUE, weight_variable |-> wv]

ConfigPool ==
    { [variables |-> <<Q1Var, Q3Var>>, filter_sets |-> FilterSets,
       global_filter |-> "", weighting |-> NoWeighting],
      [variables |-> <<Q1Var, Q3Var>>, filter_sets |-> FilterSets,
       global_filter |-> "", weighting |-> Weighting("WEIGHT")],
      [variables |-> <<Single("Q1", OtherFemaleMale, TRUE, "males"),
                       Multi("Q3", <<"Q3_1", "Q3_2">>, TRUE, "sel1")>>,
       filter_sets |-> FilterSets,
       global_filter |-> "", weighting |-> Weighting("WEIGHT")],
      [variables |-> <<Q3Var, Single("Q1", <<>>, TRUE, "empty")>>,
       filter_sets |-> FilterSets,
       global_filter |-> "males", weighting |-> NoWeighting],
      [variables |-> <<Q1Var, Multi("Q3", <<"Q3_2", "Q3_1">>, FALSE, "")>>,
       filter_sets |-> FilterSets,
       global_filter |-> "sel1", weighting |-> Weighting("WEIGHT")],
      [variables |-> <<Single("Q1", <<>>, TRUE, "nofs"), Single("Q9", <<>>, FALSE, ""),
                       Multi("Q3", <<"Q3_1", "Q3_9">>, TRUE, "sel1")>>,
       filter_sets |-> FilterSets,
       global_filter |-> "", weighting |-> Weighting("WGT")] }

InitFreq ==
    /\ \/ IsTable(data, {"Q1"}, FreqDom, MaxRowsFreq)
       \/ IsTable(data, {"Q1", "WEIGHT"}, FreqDom, MaxRowsFreqW)
       \/ IsTable(data, {"Q3_1", "Q3_2", "WEIGHT"}, MultiFreqDom, MaxRowsMultiW)
       \/ IsTable(data, {"Q1", "Q3_1", "WEIGHT"}, MixedDom, MaxRowsMixed)
    /\ reader_value_labels \in {<<>>, <<[var |-> "Q1", labels |-> MaleFemale]>>}
    /\ config \in ConfigPool
    /\ weighting_enabled = NewProcessor(data, config).weighting_enabled
    /\ warnings = NewProcessor(data, config).warnings
    /\ results = <<>>
    /\ calls = 0
    /\ out = NoOut
    /\ LauncherInit

\* processor.process_all_variables(config['variables']) of the export run
ProcessAllVariables ==
    /\ calls < MaxCalls
    /\ out.op = "none"
    /\ \E r \in {process_all_variables(config.variables,
                                        [results |-> results, warnings |-> warnings])} :
          /\ results' = r.results
          /\ warnings' = r.warnings
    /\ calls' = calls + 1
    /\ UNCHANGED <<readerVars, config, weighting_enabled, out, launcherVars>>

\* the dashboard's update_charts callback; the dashboard never calls
\* process_all_variables, and the callback writes no state of its own
UpdateCharts ==
    /\ calls = 0
    /\ out.op = "none"
    /\ \E selected_filter \in {"__none__", "males"} :
       \E selected_variables \in {<<0>>, <<1>>, <<1, 0>>, <<0, 5>>} :
       \E cards \in update_charts(selected_filter, selected_variables) :
          out' = [op |-> "update_charts", selected_filter |-> selected_filter,
                  selected_variables |-> selected_variables, cards |-> cards]
    /\ UNCHANGED <<readerVars, processorVars, launcherVars>>

\* writer.write(results, warnings, filter_sets) of the export run, which
\* writes a report only when the batch returned results
Write ==
    /\ calls >= 1
    /\ results # <<>>
    /\ out.op = "none"
    /\ out' = [op |-> "write", report |-> _write_text(results, warnings)]
    /\ UNCHANGED <<readerVars, processorVars, launcherVars>>

NextFreq == ProcessAllVariables \/ UpdateCharts \/ Write

SpecFreq == InitFreq /\ [][NextFreq]_vars

(***************************************************************************)
(* Claims about the FilterEngine (checked under SpecFilter)                *)
(***************************************************************************)
StatsKeys == {"original_count", "filtered_count", "excluded_count", "exclusion_rate"}

\* C1: for every table and every Filter Set, the empty one included, the
\* stats returned by apply_filter_set report original_count, filtered_count,
\* excluded_count and exclusion_rate, with filtered_count + excluded_count =
\* original_count and exclusion_rate = 0 when original_count = 0.
C1_StatsComplete ==
    (out.op = "apply_filter_set" /\ out.r.ok) =>
        /\ StatsKeys \subseteq DOMAIN out.r.stats
        /\ out.r.stats.original_count = len(data)
        /\ out.r.stats.filtered_count + out.r.stats.excluded_count
              = out.r.stats.original_count
        /\ (out.r.stats.original_count = 0 => FracEq(out.r.stats.exclusion_rate, 0))

\* the row of the loaded table passes the condition (by its index label)
Passes(row, c) == _apply_condition(data, MpMap, c.var, c.ops).mask[row.idx]

Permuted(fc) ==
    {[k \in 1..Len(fc) |-> fc[p[k]]] : p \in Permutations(1..Len(fc))}

\* C2: for a non-empty Filter Set the returned table holds exactly the rows
\* of the original table, in original order, for which every condition's
\* mask is true, and listing the conditions in another order returns the
\* same table.
C2_Conjunction ==
    (out.op = "apply_filter_set" /\ out.r.ok /\ out.filter_conditions # <<>>) =>
        /\ out.r.filtered_data.cols = data.cols
        /\ out.r.filtered_data.rows =
              SelectSeq(data.rows,
                        LAMBDA row : \A k \in 1..Len(out.filter_conditions) :
                                        Passes(row, out.filter_conditions[k]))
        /\ \A fc \in Permuted(out.filter_conditions) :
              LET r == apply_filter_set(data, MpMap, fc) IN
                 r.ok /\ r.filtered_data = out.r.filtered_data

\* a Filter Set of two conditions has been applied and kept some rows and
\* dropped others, each condition dropping a row the other keeps
C2_Witness ==
    /\ out.op = "apply_filter_set" /\ out.r.ok
    /\ Len(out.filter_conditions) = 2
    /\ out.r.stats.filtered_count > 0
    /\ \E row \in Range(data.rows) :
          Passes(row, out.filter_conditions[1]) /\ ~Passes(row, out.filter_conditions[2])
    /\ \E row \in Range(data.rows) :
          ~Passes(row, out.filter_conditions[1]) /\ Passes(row, out.filter_conditions[2])

Q1Scenario == <<1, 1, 2, 2, NaN>>

\* C3: eq(v) keeps exactly the rows whose value is present and equal to v; a
\* row whose value is missing is never kept by eq, in or between, whatever
\* the operand; for Q1 = [1,1,2,2,missing] and {Q1: {eq: 1}} the stats are
\* filtered_count = 2, excluded_count = 3, exclusion_rate = 60.
C3_EqAndMissing ==
    /\ (out.op = "_apply_condition" /\ out.r.ok) =>
          LET e == out.condition.ops[1]
              series == Series(data, out.condition.var)
          IN  /\ e.op = "eq" =>
                    \A k \in 1..len(data) :
                        out.r.mask[k] <=> (series[k] # NaN /\ series[k] = e.val)
              /\ e.op \in {"eq", "in", "between"} =>
                    \A k \in 1..len(data) : series[k] = NaN => ~out.r.mask[k]
    /\ (/\ out.op = "apply_filter_set"
        /\ out.filter_conditions = <<eq("Q1", 1)>>
        /\ data.cols = {"Q1"}
        /\ Series(data, "Q1") = Q1Scenario) =>
          /\ out.r.ok
          /\ out.r.stats.filtered_count = 2
          /\ out.r.stats.excluded_count = 3
          /\ FracEq(out.r.stats.exclusion_rate, 60)

\* {Q1: {eq: 1}} has been applied to Q1 = [1,1,2,2,missing]
C3_Witness ==
    /\ out.op = "apply_filter_set"
    /\ out.filter_conditions = <<eq("Q1", 1)>>
    /\ data.cols = {"Q1"}
    /\ Series(data, "Q1") = Q1Scenario

\* `in` with a missing value in its list has been evaluated on a column that
\* has a missing value
C3_WitnessIn ==
    /\ out.op = "_apply_condition" /\ out.r.ok
    /\ out.condition = in("Q1", <<1, NaN>>)
    /\ \E k \in 1..len(data) : Series(data, "Q1")[k] = NaN

Q3Scenario(df) ==
    /\ df.cols = {"Q3_1", "Q3_2"}
    /\ Series(df, "Q3_1") = <<1, 0, 1, 0>>
    /\ Series(df, "Q3_2") = <<0, 1, 1, 0>>

Selected(row, sub_var) == row.val[sub_var] # NaN /\ row.val[sub_var] = 1

\* C4: any(S) keeps a row iff at least one column of S equals 1, all(S) iff
\* every column of S equals 1, min_selected(n) iff the number of the
\* variable's defined sub-variables equal to 1 is >= n (a missing value is
\* not selected); for Q3_1 = [1,0,1,0], Q3_2 = [0,1,1,0] the masks are
\* any = [T,T,T,F], all = [F,F,T,F], min_selected(2) = [F,F,T,F].
C4_MultiPunchMasks ==
    (out.op = "_apply_condition" /\ out.r.ok) =>
        LET e == out.condition.ops[1]
            S == Range(e.subs)
            defined == Range(Q3Var.sub_variables)
        IN  /\ e.op = "any" =>
                  \A k \in 1..len(data) :
                      out.r.mask[k] <=> \E c \in S : Selected(data.rows[k], c)
            /\ e.op = "all" =>
                  \A k \in 1..len(data) :
                      out.r.mask[k] <=> \A c \in S : Selected(data.rows[k], c)
            /\ e.op = "min_selected" =>
                  \A k \in 1..len(data) :
                      out.r.mask[k] <=>
                         Cardinality({c \in defined : Selected(data.rows[k], c)}) >= e.val
            /\ Q3Scenario(data) =>
                  /\ out.condition = any("Q3", <<"Q3_1", "Q3_2">>) =>
                        out.r.mask = <<TRUE, TRUE, TRUE, FALSE>>
                  /\ out.condition = all("Q3", <<"Q3_1", "Q3_2">>) =>
                        out.r.mask = <<FALSE, FALSE, TRUE, FALSE>>
                  /\ out.condition = min_selected("Q3", 2) =>
                        out.r.mask = <<FALSE, FALSE, TRUE, FALSE>>

\* all([Q3_1, Q3_2]) has been evaluated on the scenario's table
C4_Witness ==
    /\ out.op = "_apply_condition" /\ out.r.ok
    /\ Q3Scenario(data)
    /\ out.condition = all("Q3", <<"Q3_1", "Q3_2">>)

\* min_selected(1) has been evaluated on a row with a missing sub-variable
C4_WitnessMissing ==
    /\ out.op = "_apply_condition" /\ out.r.ok
    /\ out.condition = min_selected("Q3", 1)
    /\ \E k \in 1..len(data) : data.rows[k].val["Q3_1"] = NaN /\ out.r.mask[k]

(***************************************************************************)
(* Specification SpecWeight: a WeightCalculator built on a loaded table    *)
(***************************************************************************)
WeightDom == [c \in {"WEIGHT"} |-> {NaN, -1, 0, 1, 2, Inf}]

InitWeight ==
    /\ IsTable(data, {"WEIGHT"}, WeightDom, MaxRowsWeight)
    /\ reader_value_labels = <<>>
    /\ config = BaseConfig
    /\ weighting_enabled = FALSE
    /\ results = <<>>
    /\ warnings = <<>>
    /\ calls = 0
    /\ out = NoOut
    /\ LauncherInit

\* WeightCalculator(data, weight_variable); the constructor reads the table
\* and nothing else, so a run builds one calculator
NewWeightCalculator ==
    /\ out.op = "none"
    /\ \E wv \in {"WEIGHT", "WGT"} :
          out' = [op |-> "WeightCalculator", weight_variable |-> wv,
                  r |-> WeightCalculator(data, wv)]
    /\ UNCHANGED <<readerVars, processorVars, launcherVars>>

\* get_validation_info and get_warnings on the calculator built
GetValidationInfo ==
    /\ out.op = "WeightCalculator"
    /\ out.r.ok
    /\ out' = [op |-> "get_validation_info", weight_variable |-> out.weight_variable,
               r |-> [ok |-> TRUE, validation_info |-> out.r.validation_info,
                      warnings |-> out.r.warnings]]
    /\ UNCHANGED <<readerVars, processorVars, launcherVars>>

NextWeight == NewWeightCalculator \/ GetValidationInfo

SpecWeight == InitWeight /\ [][NextWeight]_vars

Usable(w) == w # NaN /\ w # Inf /\ w > 0
WeightScenario == <<1, 1, 0, -1, NaN>>

\* C5: constructing a WeightCalculator on a table that has the weight column
\* fails iff no row has a usable weight (present, finite, > 0); with weights
\* [1, 1, 0, -1, missing] it succeeds with valid_count = 2, excluded_count =
\* 3, sum_weights = 2, ESS = 2, DEFF = 1.
C5_NoValidWeights ==
    (out.op = "WeightCalculator" /\ out.weight_variable \in data.cols) =>
        LET weights == Series(data, out.weight_variable) IN
        /\ ~out.r.ok <=> ~\E k \in 1..Len(weights) : Usable(weights[k])
        /\ ~out.r.ok => out.r.error = "No valid weights found"
        /\ weights = WeightScenario =>
              /\ out.r.ok
              /\ out.r.validation_info.valid_count = 2
              /\ out.r.validation_info.excluded_count = 3
              /\ out.r.validation_info.sum_weights = 2
              /\ FracEq(out.r.validation_info.ess, 2)
              /\ FracEq(out.r.validation_info.deff, 1)

\* a calculator has been built on the weights [1, 1, 0, -1, missing]
C5_Witness ==
    /\ out.op = "WeightCalculator"
    /\ out.weight_variable = "WEIGHT"
    /\ Series(data, "WEIGHT") = WeightScenario
    /\ out.r.ok

\* C6: in every Weight Profile valid_count + excluded_count is the table's
\* row count and excluded_count = missing_count + invalid_count, the number
\* of rows whose weight is missing or <= 0, also when a weight is non-finite.
C6_ExcludedBreakdown ==
    (out.op = "WeightCalculator" /\ out.r.ok) =>
        LET info == out.r.validation_info
            weights == Series(data, out.weight_variable)
        IN  /\ info.valid_count + info.excluded_count = len(data)
            /\ info.excluded_count = info.missing_count + info.invalid_count
            /\ info.excluded_count =
                  Cardinality({k \in 1..Len(weights) : weights[k] = NaN \/ weights[k] <= 0})

(***************************************************************************)
(* Claims about the frequency tables                                       *)
(***************************************************************************)
\* the results of the export run and of the dashboard callback
Produced ==
    Range(results) \cup (IF out.op = "update_charts" THEN Range(out.cards) ELSE {})

\* the table a result was tabulated from: the loaded table, or the rows of
\* it that pass the Filter Set named in the result
TableOf(r) ==
    IF r.filter_info.present
    THEN apply_filter_set(data, MpMap,
                          FilterSetGet(config.filter_sets, r.filter_info.name)).filtered_data
    ELSE data

VarConfig(name) ==
    config.variables[CHOOSE k \in 1..Len(config.variables) : config.variables[k].name = name]

\* the sum of the usable weights of a table
UsableWeightSum(df) ==
    SumSeq([k \in 1..len(df) |->
               IF Usable(df.rows[k].val[config.weighting.weight_variable])
               THEN df.rows[k].val[config.weighting.weight_variable] ELSE 0])

\* C7: in every weighted single-response table total_unweighted is the
\* Weight Profile's valid_count (the number of rows with a usable weight),
\* total_weighted is the sum of all usable weights, those of rows with a
\* missing response included, and the weighted counts of all rows, Missing
\* included, sum to total_weighted, so the percentages sum to 100%.
C7_WeightedSingleTotals ==
    \A r \in Produced :
        (r.type = "single" /\ r.weighted) =>
            LET df == TableOf(r)
                wv == config.weighting.weight_variable
                table == r.freq_table
            IN  /\ r.total_unweighted = r.weight_info.valid_count
                /\ r.total_unweighted = Cardinality({k \in 1..len(df) : Usable(df.rows[k].val[wv])})
                /\ r.total_weighted = UsableWeightSum(df)
                /\ SumSeq([k \in 1..Len(table) |-> table[k].weighted_count]) = r.total_weighted
                /\ SumSeq([k \in 1..Len(table) |-> table[k].unweighted_count]) = r.total_unweighted
                /\ \A k \in 1..Len(table) : table[k].percentage.den = r.total_weighted
                /\ SumSeq([k \in 1..Len(table) |-> table[k].percentage.num])
                      = 100 * r.total_weighted

\* the export produced a weighted single-response table from a table with a
\* row of unusable weight and a row of usable weight whose response is missing
C7_Witness ==
    \E k \in 1..Len(results) :
        LET r == results[k] IN
        /\ r.type = "single" /\ r.weighted
        /\ r.total_unweighted < len(TableOf(r))
        /\ \E j \in 1..Len(r.freq_table) :
              r.freq_table[j].is_missing /\ r.freq_table[j].weighted_count > 0

\* the count of the Missing row of a table, 0 when it has none
MissingCount(table) ==
    SumSeq([k \in 1..Len(table) |-> IF table[k].is_missing THEN table[k].count ELSE 0])

\* C8: in every unweighted single-response table the counts of all rows,
\* Missing included, sum to total_responses, the row count of the filtered
\* table; valid_responses plus the Missing count is total_responses; and the
\* percentages sum to 100% when total_responses > 0, with or without labels.
C8_UnweightedSingleTotals ==
    \A r \in Produced :
        (r.type = "single" /\ ~r.weighted) =>
            LET table == r.freq_table IN
            /\ r.total_responses = len(TableOf(r))
            /\ SumSeq([k \in 1..Len(table) |-> table[k].count]) = r.total_responses
            /\ r.valid_responses + MissingCount(table) = r.total_responses
            /\ r.total_responses > 0 =>
                  /\ \A k \in 1..Len(table) : table[k].percentage.den = r.total_responses
                  /\ SumSeq([k \in 1..Len(table) |-> table[k].percentage.num])
                        = 100 * r.total_responses

\* the export produced an unweighted, labelled single-response table with a
\* Missing row beside a row of an observed value
C8_Witness ==
    \E k \in 1..Len(results) :
        LET r == results[k] IN
        /\ r.type = "single" /\ ~r.weighted
        /\ \E i, j \in 1..Len(r.freq_table) :
              /\ r.freq_table[i].is_missing
              /\ r.freq_table[j].label = "Male" /\ r.freq_table[j].count > 0

\* the value labels of a Variable Definition: those of the configuration,
\* else those of the SPSS file
LabelsOfVariable(name) ==
    IF VarConfig(name).value_labels # <<>> THEN VarConfig(name).value_labels
    ELSE get_value_labels(name)

\* the position of a row in the prescribed order: labelled values in label
\* order, then unlabelled values ascending, then Missing
OrderKey(labels, row) ==
    IF row.is_missing THEN <<2, 0>>
    ELSE IF Labelled(labels, row.value)
         THEN <<0, CHOOSE k \in 1..Len(labels) : labels[k].value = row.value>>
         ELSE <<1, row.value>>
KeyLess(a, b) == a[1] < b[1] \/ (a[1] = b[1] /\ a[2] < b[2])

MaleFemaleScenario == <<1, 1, 2, NaN>>

\* C9: every table of a single variable lists its rows in the value-label
\* order of the Variable Definition, then the unlabelled observed values in
\* ascending order, then the Missing row, present only with a missing count
\* > 0, whatever the counts; with the labels {1: Male, 2: Female} and the
\* data [1, 1, 2, missing] the rows are Male (2, 50%), Female (1, 25%),
\* Missing (1, 25%).
C9_LabelOrder ==
    \A r \in Produced :
        r.type = "single" =>
            LET table == r.freq_table
                labels == LabelsOfVariable(r.var_name)
            IN  /\ \A i, j \in 1..Len(table) :
                      i < j => KeyLess(OrderKey(labels, table[i]), OrderKey(labels, table[j]))
                /\ \A i \in 1..Len(table) :
                      table[i].is_missing =>
                          (IF r.weighted THEN table[i].unweighted_count ELSE table[i].count) > 0
                /\ (/\ ~r.weighted /\ ~r.filter_info.present
                    /\ data.cols = {"Q1"} /\ Series(data, "Q1") = MaleFemaleScenario
                    /\ labels = MaleFemale) =>
                      /\ [k \in 1..Len(table) |-> table[k].label] = <<"Male", "Female", "Missing">>
                      /\ [k \in 1..Len(table) |-> table[k].count] = <<2, 1, 1>>
                      /\ FracEq(table[1].percentage, 50)
                      /\ FracEq(table[2].percentage, 25)
                      /\ FracEq(table[3].percentage, 25)

\* the table a variable is tabulated from by process_all_variables
TabulatedTable(var_config) ==
    IF _determine_filter(var_config) # ""
    THEN _apply_filter(_determine_filter(var_config)).filtered_data
    ELSE data

\* the variable has zero data: its filter leaves no row, or it is a multi
\* variable none of whose rows has a sub-variable equal to 1
ZeroData(var_config) ==
    \/ _determine_filter(var_config) # "" /\ len(TabulatedTable(var_config)) = 0
    \/ /\ var_config.type = "multi"
       /\ \E j \in 1..Len(var_config.sub_variables) : var_config.sub_variables[j] \in data.cols
       /\ \A k \in 1..len(TabulatedTable(var_config)) :
             \A j \in 1..Len(var_config.sub_variables) :
                var_config.sub_variables[j] \in data.cols =>
                    TabulatedTable(var_config).rows[k].val[var_config.sub_variables[j]] # 1

\* C10: a variable with zero data (its filter leaves zero rows, or it is a
\* multi variable whose base is zero) is skipped with a warning and yields
\* no frequency table, whether weighting is enabled or not.
C10_ZeroDataSkipped ==
    calls >= 1 =>
        \A v \in 1..Len(config.variables) :
            ZeroData(config.variables[v]) =>
                /\ \A k \in 1..Len(results) : results[k].var_name # config.variables[v].name
                /\ \E k \in 1..Len(warnings) : warnings[k].name = config.variables[v].name

\* the sub-variables of a Variable Definition that are columns of the table
ExistingSubVariables(name) ==
    SelectSeq(VarConfig(name).sub_variables, LAMBDA sv : sv \in data.cols)

\* C11: every table of a multi variable, weighted or not and on every call
\* path, lists its rows in the order of the Variable Definition's
\* sub-variable list, never re-sorted by count.
C11_SubVariableOrder ==
    \A r \in Produced :
        r.type = "multi" =>
            [k \in 1..Len(r.freq_table) |-> r.freq_table[k].sub_var]
                = ExistingSubVariables(r.var_name)

\* the results and the warnings recorded for a variable
ResultsOf(name) == SelectSeq(results, LAMBDA r : r.var_name = name)
WarningsOf(name) == SelectSeq(warnings, LAMBDA w : w.name = name)

\* the variable's column, or one of its sub-variables, is in the table
HasColumns(var_config) ==
    IF var_config.type = "single" THEN var_config.name \in data.cols
    ELSE \E j \in 1..Len(var_config.sub_variables) : var_config.sub_variables[j] \in data.cols

\* weighting is on, the variable is tabulated, and no row of its filtered
\* table has a usable weight: its weighted computation raises
WeightingFails(var_config) ==
    /\ weighting_enabled
    /\ HasColumns(var_config)
    /\ ~ZeroData(var_config)
    /\ \A k \in 1..len(TabulatedTable(var_config)) :
          ~Usable(TabulatedTable(var_config).rows[k].val[config.weighting.weight_variable])

\* every variable of the batch was processed: it has a result or a warning
BatchCompleted ==
    \A u \in 1..Len(config.variables) :
        ResultsOf(config.variables[u].name) # <<>> \/ WarningsOf(config.variables[u].name) # <<>>

\* C12: when the weighted computation of one variable raises (its filtered
\* table has no usable weight), the FrequencyProcessor returns the
\* variable's unweighted table with weighted = False, records a warning,
\* and still processes every other variable of the batch.
C12_FallbackPerVariable ==
    calls >= 1 =>
        \A v \in 1..Len(config.variables) :
            LET var_config == config.variables[v] IN
            WeightingFails(var_config) =>
                /\ Len(ResultsOf(var_config.name)) = calls
                /\ \A k \in 1..Len(ResultsOf(var_config.name)) :
                      LET r == ResultsOf(var_config.name)[k] IN
                      /\ ~r.weighted
                      /\ var_config.type = "single" =>
                            r.total_responses = len(TabulatedTable(var_config))
                      /\ var_config.type = "multi" =>
                            r.total_respondents = len(TabulatedTable(var_config))
                /\ \E k \in 1..Len(warnings) :
                      /\ warnings[k].name = var_config.name
                      /\ warnings[k].text =
                            "Error calculating weighted frequencies. Using unweighted."
                /\ BatchCompleted

\* a batch in which the first variable fell back to its unweighted table
\* and the next one was tabulated weighted
C12_Witness ==
    /\ calls = 1
    /\ Len(config.variables) = 2
    /\ WeightingFails(config.variables[1])
    /\ Len(results) = 2
    /\ ~results[1].weighted /\ results[1].var_name = config.variables[1].name
    /\ results[2].weighted /\ results[2].var_name = config.variables[2].name

\* the result object carries a human-readable reason for its fallback
HasReason(r) == "weighting_warning" \in DOMAIN r /\ r.weighting_warning # ""

\* C13: every result object records whether it is weighted and, whenever a
\* weighting fallback occurred for its variable (weighting in force, the
\* table unweighted), the result object itself carries a human-readable
\* reason for the fallback.
C13_FallbackReasonInResult ==
    /\ \A r \in Range(results) :
          /\ "weighted" \in DOMAIN r
          /\ (weighting_enabled /\ ~r.weighted) => HasReason(r)
    /\ out.op = "update_charts" =>
          \A r \in Range(out.cards) :
              /\ "weighted" \in DOMAIN r
              /\ (config.weighting.enabled /\ ~r.weighted) => HasReason(r)

\* a warning about weighting is recorded for the variable
WeightingWarningFor(name) ==
    \E k \in 1..Len(warnings) :
        /\ warnings[k].name = name
        /\ warnings[k].text \in {"Error calculating weighted frequencies. Using unweighted.",
                                 "Failed to initialize weighting"}

\* C14: when weighting is enabled in the configuration but cannot be
\* initialised (weight column absent, or no usable weight), every variable
\* of the batch that has data is still tabulated unweighted, each result
\* with its own warning (in the result, or recorded for its variable), and
\* the batch completes.
C14_DegradedBatch ==
    (calls >= 1 /\ config.weighting.enabled /\ ~weighting_enabled) =>
        /\ BatchCompleted
        /\ \A v \in 1..Len(config.variables) :
              LET var_config == config.variables[v] IN
              (HasColumns(var_config) /\ ~ZeroData(var_config)) =>
                  /\ Len(ResultsOf(var_config.name)) = calls
                  /\ \A k \in 1..Len(ResultsOf(var_config.name)) :
                        /\ ~ResultsOf(var_config.name)[k].weighted
                        /\ \/ HasReason(ResultsOf(var_config.name)[k])
                           \/ WeightingWarningFor(var_config.name)

\* the variable references a column, or a sub-variable, absent from the table
ReferencesAbsent(var_config) ==
    IF var_config.type = "single" THEN var_config.name \notin data.cols
    ELSE \E j \in 1..Len(var_config.sub_variables) : var_config.sub_variables[j] \notin data.cols

\* the position of a variable in the configuration
ConfigIndex(name) ==
    CHOOSE k \in 1..Len(config.variables) : config.variables[k].name = name

\* C15: a variable that references a column or a sub-variable absent from
\* the table is skipped, no result produced for it, with a warning recorded;
\* every other variable of the batch is still processed and the results
\* keep the order of the configuration.
C15_AbsentColumnSkipped ==
    calls >= 1 =>
        /\ \A v \in 1..Len(config.variables) :
              ReferencesAbsent(config.variables[v]) =>
                  /\ ResultsOf(config.variables[v].name) = <<>>
                  /\ WarningsOf(config.variables[v].name) # <<>>
        /\ BatchCompleted
        /\ calls = 1 =>
              \A i, j \in 1..Len(results) :
                  i < j => ConfigIndex(results[i].var_name) < ConfigIndex(results[j].var_name)

(***************************************************************************)
(* Claims about failing filter conditions                                  *)
(***************************************************************************)
\* the listed sub-variables of a condition that are not columns of the table
AbsentSubs(sub_vars) == {sub_vars[k] : k \in {j \in 1..Len(sub_vars) : sub_vars[j] \notin data.cols}}

\* the variable is defined as multi, with sub-variables, in the configuration
DefinedMulti(name) ==
    \E k \in 1..Len(config.variables) :
        /\ config.variables[k].name = name
        /\ config.variables[k].type = "multi"
        /\ config.variables[k].has_sub_variables

\* what a one-operator condition references that the table or the
\* configuration does not have: the names an error may carry
AbsentReferences(c) ==
    LET e == c.ops[1] IN
    CASE e.op \in {"any", "all"} -> AbsentSubs(e.subs)
      [] e.op = "min_selected" ->
            IF ~DefinedMulti(c.var) THEN {c.var}
            ELSE AbsentSubs(VarConfig(c.var).sub_variables)
      [] OTHER -> IF c.var \notin data.cols THEN {c.var} ELSE {}

\* C16: a filter condition that references something absent (a column not
\* in the table, a listed sub-variable not in the table, min_selected on a
\* variable not defined as multi) makes the evaluator raise an error naming
\* it; it yields no mask and is never silently skipped.
C16_AbsentReferenceRaises ==
    (out.op = "_apply_condition" /\ AbsentReferences(out.condition) # {}) =>
        /\ ~out.r.ok
        /\ out.r.name \in AbsentReferences(out.condition)
        /\ "mask" \notin DOMAIN out.r

\* the evaluator was called with a condition on a column the table, which
\* has rows, does not have, and raised
C16_Witness ==
    /\ out.op = "_apply_condition"
    /\ len(data) > 0
    /\ out.condition = eq("Q1", 1)
    /\ "Q1" \notin data.cols
    /\ ~out.r.ok

\* the condition fails to evaluate on the loaded table
Fails(c) == ~_apply_condition(data, MpMap, c.var, c.ops).ok

\* the first failing condition of a Filter Set
FirstFailing(fc) == fc[CHOOSE k \in 1..Len(fc) : Fails(fc[k]) /\ \A j \in 1..k - 1 : ~Fails(fc[j])]

\* the state part of C17: what apply_filter_set returned
FailurePropagated ==
    (out.op = "apply_filter_set" /\ \E k \in 1..Len(out.filter_conditions) :
                                        Fails(out.filter_conditions[k])) =>
        /\ ~out.r.ok
        /\ out.r = _apply_condition(data, MpMap, FirstFailing(out.filter_conditions).var,
                                    FirstFailing(out.filter_conditions).ops)
        /\ DOMAIN out.r \cap {"filtered_data", "filter_summary", "stats", "mask"} = {}

\* C17: if any condition of a Filter Set fails to evaluate, apply_filter_set
\* raises that failure and returns no filtered table, description map or
\* stats, wherever the failing condition sits; it never falls back to
\* keeping all rows, and the engine's table is unchanged.
C17_FailurePropagates == []FailurePropagated /\ [][data' = data]_vars

\* apply_filter_set raised on a Filter Set of three conditions whose second
\* one fails, on a table with rows the first condition keeps
C17_Witness ==
    /\ out.op = "apply_filter_set"
    /\ Len(out.filter_conditions) = 3
    /\ ~Fails(out.filter_conditions[1]) /\ Fails(out.filter_conditions[2])
    /\ \E k \in 1..len(data) : data.rows[k].val["Q1"] = 1
    /\ ~out.r.ok

\* the number of sub-variables of a variable defined as multi
SubVariableCount(name) == Len(VarConfig(name).sub_variables)

\* the condition is min_selected(n) at a boundary: n = 0, or n greater than
\* the number of sub-variables of its multi variable
BoundaryMinSelected(c) ==
    /\ c.ops[1].op = "min_selected"
    /\ DefinedMulti(c.var)
    /\ c.ops[1].val = 0 \/ c.ops[1].val > SubVariableCount(c.var)

\* C18: min_selected(0) keeps every row of the table and min_selected(n)
\* with n greater than the number of the variable's sub-variables keeps no
\* row: the configuration accepts both conditions and the evaluator returns
\* the all-True, respectively the all-False, mask.
C18_MinSelectedBoundaries ==
    /\ (/\ out.op = "_apply_condition"
        /\ BoundaryMinSelected(out.condition)
        /\ AbsentReferences(out.condition) = {}) =>
            /\ out.r.ok
            /\ \A k \in 1..len(data) : out.r.mask[k] = (out.condition.ops[1].val = 0)
    /\ (out.op = "_validate_filter_condition" /\ BoundaryMinSelected(out.condition)) =>
            out.errors = <<>>

\* every weight of the loaded table equals 1
UnitWeights ==
    /\ config.weighting.weight_variable \in data.cols
    /\ \A k \in 1..len(data) : data.rows[k].val[config.weighting.weight_variable] = 1

\* C19: if every weight in the table equals 1, then in every weighted
\* frequency table, single and multi, each row's weighted_count equals its
\* unweighted_count, and the Weight Profile has ESS = valid_count and
\* DEFF = 1.
C19_UnitWeights ==
    \A r \in Produced :
        (r.weighted /\ UnitWeights) =>
            /\ \A k \in 1..Len(r.freq_table) :
                  r.freq_table[k].weighted_count = r.freq_table[k].unweighted_count
            /\ r.total_weighted = r.total_unweighted
            /\ FracEq(r.weight_info.ess, r.weight_info.valid_count)
            /\ FracEq(r.weight_info.deff, 1)

\* the export produced, from a table of two rows of weight 1, a weighted
\* table with a row of count 1
C19_Witness ==
    /\ UnitWeights
    /\ len(data) = 2
    /\ \E k \in 1..Len(results) :
          /\ results[k].weighted
          /\ results[k].weight_info.valid_count = 2
          /\ \E j \in 1..Len(results[k].freq_table) :
                results[k].freq_table[j].unweighted_count = 1

\* C20: applying the empty Filter Set returns a table equal to the input
\* table (same rows, same order), an empty description map and an exclusion
\* rate of 0.
C20_EmptyFilterIdentity ==
    (out.op = "apply_filter_set" /\ out.filter_conditions = <<>>) =>
        /\ out.r.ok
        /\ out.r.filtered_data = data
        /\ Index(out.r.filtered_data) = Index(data)
        /\ out.r.filter_summary = <<>>
        /\ FracEq(out.r.stats.exclusion_rate, 0)
        /\ out.r.stats.filtered_count = len(data)
        /\ out.r.stats.original_count = len(data)

\* the empty Filter Set was applied to a table with rows of different values
C20_Witness ==
    /\ out.op = "apply_filter_set"
    /\ out.filter_conditions = <<>>
    /\ len(data) >= 2
    /\ data.rows[1].val # data.rows[2].val
    /\ out.r.ok

(***************************************************************************)
(* Specification SpecValidate: validation of a configuration against the   *)
(* loaded file, before the dashboard or the export runs                    *)
(***************************************************************************)
ValidateDom ==
    [c \in {"Q1", "Q3_1", "Q3_2", "WEIGHT"} |->
        CASE c = "Q1" -> {NaN, 1}
          [] c = "Q3_1" -> {NaN, 1}
          [] c = "Q3_2" -> {0}
          [] OTHER -> {NaN, 0, 1}]

Males == [name |-> "males", conditions |-> <<eq("Q1", 1)>>]

ValidateConfigPool ==
    { \* Filter Sets keyed by the multi variable
      [variables |-> <<Q1Var, Q3Var>>,
       filter_sets |-> <<Males,
                         [name |-> "sel1", conditions |-> <<any("Q3", <<"Q3_1">>)>>],
                         [name |-> "two", conditions |-> <<min_selected("Q3", 1)>>]>>,
       global_filter |-> "", weighting |-> NoWeighting],
      \* a type that is neither single nor multi, and a variable that is no column
      [variables |-> <<Single("Q9", <<>>, FALSE, ""), [Q1Var EXCEPT !.type = "grid"]>>,
       filter_sets |-> <<Males>>,
       global_filter |-> "", weighting |-> NoWeighting],
      \* errors in a variable, a Filter Set, a reference and the weighting block
      [variables |-> <<Single("Q1", <<>>, TRUE, "nofs"),
                       [Q3Var EXCEPT !.has_sub_variables = FALSE, !.sub_variables = <<>>]>>,
       filter_sets |-> <<[name |-> "bad",
                          conditions |-> <<Cond("Q1", "gt", 1, <<>>, <<>>),
                                           min_selected("Q2", 0)>>],
                         [name |-> "ops",
                          conditions |-> <<[var |-> "Q1",
                                            ops |-> <<Entry("eq", 1, <<>>, <<>>),
                                                      Entry("not_missing", 1, <<>>, <<>>)>>],
                                           [var |-> "Q2", ops |-> <<>>]>>]>>,
       global_filter |-> "", weighting |-> [enabled |-> TRUE, weight_variable |-> ""]],
      \* names that are no columns, in every block
      [variables |-> <<Q1Var, Single("Q9", <<>>, FALSE, ""),
                       Multi("Q3", <<"Q3_1", "Q3_9">>, FALSE, "")>>,
       filter_sets |-> <<[name |-> "q9", conditions |-> <<eq("Q9", 1)>>],
                         [name |-> "empty", conditions |-> <<>>]>>,
       global_filter |-> "nofs", weighting |-> Weighting("WGT")],
      \* a Filter Set with a multi-punch operator keyed by the single variable
      [variables |-> <<Q1Var, Q3Var>>,
       filter_sets |-> <<[name |-> "anyq1", conditions |-> <<any("Q1", <<"Q3_1">>)>>]>>,
       global_filter |-> "", weighting |-> NoWeighting],
      \* a weighted configuration with a global filter
      [variables |-> <<Q1Var, Q3Var>>, filter_sets |-> <<Males>>,
       global_filter |-> "males", weighting |-> Weighting("WEIGHT")],
      \* no variables
      [variables |-> <<>>, filter_sets |-> <<>>,
       global_filter |-> "", weighting |-> NoWeighting] }

InitValidate ==
    /\ \/ IsTable(data, {"Q1", "Q3_1", "Q3_2", "WEIGHT"}, ValidateDom, MaxRowsValidate)
       \/ IsTable(data, {"Q1"}, ValidateDom, MaxRowsValidate)
    /\ reader_value_labels = <<>>
    /\ config \in ValidateConfigPool
    /\ weighting_enabled = FALSE
    /\ results = <<>>
    /\ warnings = <<>>
    /\ calls = 0
    /\ out = NoOut
    /\ LauncherInit

\* loader.validate() of the export run
LoaderValidate ==
    /\ out.op = "none"
    /\ out' = [op |-> "ConfigLoader.validate", errors |-> ConfigLoader_validate]
    /\ UNCHANGED <<readerVars, processorVars, launcherVars>>

\* validator.validate(tkinter_mode=True) of create_dashboard and of the
\* launcher's pre-launch check
Validate ==
    /\ out.op = "none"
    /\ out' = [op |-> "validate", r |-> SPSSMetaValidator_validate]
    /\ UNCHANGED <<readerVars, processorVars, launcherVars>>

NextValidate == LoaderValidate \/ Validate

SpecValidate == InitValidate /\ [][NextValidate]_vars

(***************************************************************************)
(* Specification SpecLauncher: Launch and Stop Server clicks, subprocess   *)
(* exits, the monitor threads and their deferred callbacks, interleaved    *)
(***************************************************************************)
InitLauncher ==
    /\ data = [cols |-> {}, rows |-> <<>>]
    /\ reader_value_labels = <<>>
    /\ config = BaseConfig
    /\ weighting_enabled = FALSE
    /\ results = <<>>
    /\ warnings = <<>>
    /\ calls = 0
    /\ out = NoOut
    /\ LauncherInit

\* _update_ui_state(running)
_update_ui_state(running) ==
    /\ launch_btn' = IF running THEN "disabled" ELSE "normal"
    /\ shutdown_btn' = IF running THEN "normal" ELSE "disabled"

\* a click on Launch whose validations pass: _launch_dashboard starts the
\* subprocess and its monitor thread
_launch_dashboard ==
    /\ launch_btn = "normal"
    /\ launched < MaxLaunches
    /\ launched' = launched + 1
    /\ dash_process' = launched + 1
    /\ alive' = alive \cup {launched + 1}
    /\ is_running' = TRUE
    /\ _update_ui_state(TRUE)
    /\ monitor' = Append(monitor, [pc |-> "start", target |-> None])
    /\ UNCHANGED <<pending, readerVars, processorVars, out>>

\* a click on Stop Server: _shutdown_server terminates the subprocess and
\* waits for its end
_shutdown_server ==
    /\ shutdown_btn = "normal"
    /\ IF dash_process # None /\ is_running
       THEN /\ alive' = alive \ {dash_process}
            /\ dash_process' = None
            /\ is_running' = FALSE
            /\ _update_ui_state(FALSE)
       ELSE UNCHANGED <<alive, dash_process, is_running, launch_btn, shutdown_btn>>
    /\ UNCHANGED <<monitor, pending, launched, readerVars, processorVars, out>>

\* a dashboard subprocess ends by itself
ProcessExit ==
    /\ \E p \in alive : alive' = alive \ {p}
    /\ UNCHANGED <<is_running, dash_process, launch_btn, shutdown_btn, monitor, pending,
                   launched, readerVars, processorVars, out>>

\* _monitor_process, `if self.dash_process:`: the thread ends when the field
\* is None
MonitorCheck ==
    /\ \E t \in 1..Len(monitor) :
          /\ monitor[t].pc = "start"
          /\ monitor' = [monitor EXCEPT ![t].pc = IF dash_process # None THEN "checked"
                                                  ELSE "done"]
    /\ UNCHANGED <<is_running, dash_process, launch_btn, shutdown_btn, alive, pending,
                   launched, readerVars, processorVars, out>>

\* _monitor_process, `self.dash_process.wait()`: the field is read again, and
\* the thread dies of an AttributeError when it is None by now
MonitorWait ==
    /\ \E t \in 1..Len(monitor) :
          /\ monitor[t].pc = "checked"
          /\ monitor' = [monitor EXCEPT ![t] = IF dash_process # None
                                               THEN [pc |-> "waiting", target |-> dash_process]
                                               ELSE [pc |-> "done", target |-> None]]
    /\ UNCHANGED <<is_running, dash_process, launch_btn, shutdown_btn, alive, pending,
                   launched, readerVars, processorVars, out>>

\* _monitor_process: wait() returns once the subprocess has ended, and the
\* thread queues _on_process_ended with root.after(0, ...)
MonitorReturn ==
    /\ \E t \in 1..Len(monitor) :
          /\ monitor[t].pc = "waiting"
          /\ monitor[t].target \notin alive
          /\ monitor' = [monitor EXCEPT ![t].pc = "done"]
    /\ pending' = pending + 1
    /\ UNCHANGED <<is_running, dash_process, launch_btn, shutdown_btn, alive, launched,
                   readerVars, processorVars, out>>

\* the Tk main loop runs a queued _on_process_ended
_on_process_ended ==
    /\ pending > 0
    /\ pending' = pending - 1
    /\ is_running' = FALSE
    /\ _update_ui_state(FALSE)
    /\ UNCHANGED <<dash_process, alive, monitor, launched, readerVars, processorVars, out>>

NextLauncher ==
    \/ _launch_dashboard
    \/ _shutdown_server
    \/ ProcessExit
    \/ MonitorCheck
    \/ MonitorWait
    \/ MonitorReturn
    \/ _on_process_ended

SpecLauncher == InitLauncher /\ [][NextLauncher]_vars

(***************************************************************************)
(* Claims about the table, validation and the pipeline's state             *)
(***************************************************************************)
\* the state part of C21: what apply_filter_set returned is a new table, and
\* it holds rows of the engine's table only
NewTableReturned ==
    (out.op = "apply_filter_set" /\ out.r.ok) =>
        /\ out.r.copy
        /\ Range(out.r.filtered_data.rows) \subseteq Range(data.rows)
        /\ out.r.stats.original_count = len(data)

\* C21: no apply_filter_set call changes the engine's source table; every
\* filter application yields a new table distinct from the original, and a
\* filter is evaluated against all original rows.
C21_SourceIntact == []NewTableReturned /\ [][data' = data]_vars

\* every error a stage of the validation finds in the configuration
ErrorsPresent ==
    ConfigLoader_validate \o _validate_variables.errors \o _validate_filters.errors
    \o SPSSMetaValidator_validate_weighting.errors

\* the place of the configuration an error is about: the variable, or the
\* Filter Set and the condition's variable, or the weighting block
Place(e) == <<e.name, e.var>>

\* C22: validation reports every configuration error present in one pass: an
\* error found in one stage, variable, filter condition or the weighting
\* block never suppresses the report of another error elsewhere (every place
\* of the configuration a stage finds in error has an error reported).
C22_AllErrorsReported ==
    out.op = "validate" =>
        /\ {Place(e) : e \in Range(ErrorsPresent)}
              \subseteq {Place(e) : e \in Range(out.r.errors)}
        /\ out.r.is_valid = (ErrorsPresent = <<>>)

\* the errors the validation call returned
ReportedErrors == IF out.op = "validate" THEN out.r.errors ELSE out.errors

\* the variable is defined with type 'single'
DefinedSingle(name) ==
    \E k \in 1..Len(config.variables) :
        config.variables[k].name = name /\ config.variables[k].type = "single"

\* the faults of a condition object that C23 lists
Malformed(c) ==
    \/ Len(c.ops) # 1
    \/ c.ops[1].op \notin valid_operators
    \/ c.ops[1].op \in {"any", "all", "min_selected"} /\ DefinedSingle(c.var)
    \/ c.ops[1].op = "min_selected" /\ ~DefinedMulti(c.var)

\* C23: validation reports a configuration error for each of: a condition
\* that does not have exactly one operator, an unknown operator, a
\* multi-only operator (any, all, min_selected) on a variable defined as
\* single, and min_selected on a variable that is not a defined multi
\* variable.
C23_MalformedConditionReported ==
    out.op \in {"validate", "ConfigLoader.validate"} =>
        \A f \in Range(config.filter_sets) : \A c \in Range(f.conditions) :
            Malformed(c) =>
                \E e \in Range(ReportedErrors) : e.name = f.name /\ e.var = c.var

\* a condition keyed by a defined multi variable (any, all or min_selected)
\* that the FilterEngine evaluates on the loaded table without error
EvaluableMultiCondition(c) ==
    /\ Len(c.ops) = 1
    /\ c.ops[1].op \in multi_punch_operators
    /\ DefinedMulti(c.var)
    /\ \A k \in 1..Len(MapGet(MpMap, c.var)) : MapGet(MpMap, c.var)[k] \in data.cols
    /\ _apply_condition(data, MpMap, c.var, c.ops).ok

\* C28: pre-launch validation and the filter engine agree on multi-variable
\* filters: a condition keyed by a defined multi variable's name whose
\* sub-variables all exist in the table, which FilterEngine evaluates
\* without error, produces no error in SPSSMetaValidator.validate.
C28_MultiFilterAccepted ==
    out.op = "validate" =>
        \A f \in Range(config.filter_sets) : \A c \in Range(f.conditions) :
            EvaluableMultiCondition(c) =>
                ~\E e \in Range(out.r.errors) : e.name = f.name /\ e.var = c.var

\* the line that closes the table written for results[k]
ClosingLine(k) == out.report.tables[k][Len(out.report.tables[k])]

\* C24: in the text report every single-response table (weighted or not)
\* closes with a totals row showing the total and 100.0%, and every
\* multi-response table (weighted or not) closes with the note that
\* percentages may exceed 100% because respondents can select multiple
\* options.
C24_TableClosings ==
    out.op = "write" =>
        \A k \in 1..Len(results) :
            /\ results[k].type = "single" =>
                  /\ ClosingLine(k).kind = "total"
                  /\ ClosingLine(k).values[1]
                        = (IF results[k].weighted THEN results[k].total_unweighted
                           ELSE results[k].total_responses)
                  /\ ClosingLine(k).values[Len(ClosingLine(k).values)] = "100.0%"
            /\ results[k].type = "multi" => ClosingLine(k).kind = "note"

\* a process_all_variables call on the processor returned
BatchReturns == calls' = calls + 1

\* C25: the pipeline is stateless between invocations: each call of
\* process_all_variables returns the results for exactly the variables passed
\* in that call, so calling it twice with the same configuration returns the
\* same result list both times.
C25_StatelessBatch ==
    [][BatchReturns =>
          /\ Len(results') <= Len(config.variables)
          /\ calls = 1 => results' = results]_vars

\* the filter step of the variable fails: the Filter Set it names (its own,
\* or the global one) is not defined, or applying it raises
FilterFails(var_config) ==
    /\ _determine_filter(var_config) # ""
    /\ \/ ~HasFilterSet(config.filter_sets, _determine_filter(var_config))
       \/ ~apply_filter_set(data, _build_multi_punch_map(config.variables),
                            FilterSetGet(config.filter_sets,
                                         _determine_filter(var_config))).ok

\* the full table, with no filter info
Unfiltered == [filtered_data |-> data, filter_info |-> NoFilterInfo, warnings |-> <<>>]

\* C26: when a variable's filter set name is not defined in filter_sets, or
\* applying the filter set raises, FrequencyProcessor records a warning and
\* does not abort the batch; the variable is still tabulated, on the full
\* unfiltered table and with no filter info attached to its result.
C26_FilterFailureTabulated ==
    calls = 1 =>
        \A u \in 1..Len(config.variables) :
            FilterFails(config.variables[u]) =>
                /\ \E w \in Range(warnings) :
                      /\ w.name = _determine_filter(config.variables[u])
                      /\ w.text \in {"Filter set not found in configuration",
                                     "Error applying filter"}
                /\ ResultsOf(config.variables[u].name)
                      = (IF Tabulate(config.variables[u], Unfiltered).present
                         THEN <<Tabulate(config.variables[u], Unfiltered).result>>
                         ELSE <<>>)

\* the Filter Set C27 gives a variable: its own filter_set, else the global
\* filter, else none ("")
FilterByPriority(var_config) ==
    CASE var_config.has_filter_set -> var_config.filter_set
      [] ~var_config.has_filter_set /\ config.global_filter # "" -> config.global_filter
      [] OTHER -> ""

\* the rows of the loaded table that pass every condition of the Filter Set
RowsPassing(name) ==
    [cols |-> data.cols,
     rows |-> SelectSeq(data.rows,
                        LAMBDA row :
                           \A k \in 1..Len(FilterSetGet(config.filter_sets, name)) :
                              Passes(row, FilterSetGet(config.filter_sets, name)[k]))]

\* the result r of the variable is the tabulation of the rows passing the
\* Filter Set f and of no other rows, and names f as its filter
TabulatedUnder(r, f) ==
    /\ r.filter_info.present
    /\ r.filter_info.name = f
    /\ r.filter_info.stats.filtered_count = len(RowsPassing(f))
    /\ r = Tabulate(VarConfig(r.var_name),
                    [filtered_data |-> RowsPassing(f), filter_info |-> r.filter_info,
                     warnings |-> <<>>]).result

\* C27: filter selection priority is variable filter_set > global_filter >
\* none: a variable that names its own filter_set is filtered by that set
\* only, the global filter is applied only to variables without a
\* filter_set, and the two are never combined.
C27_FilterPriority ==
    calls = 1 =>
        \A r \in Range(results) :
            /\ FilterByPriority(VarConfig(r.var_name)) = "" =>
                  /\ ~r.filter_info.present
                  /\ r = Tabulate(VarConfig(r.var_name), Unfiltered).result
            /\ (/\ FilterByPriority(VarConfig(r.var_name)) # ""
                /\ HasFilterSet(config.filter_sets, FilterByPriority(VarConfig(r.var_name)))
                /\ \A c \in Range(FilterSetGet(config.filter_sets,
                                               FilterByPriority(VarConfig(r.var_name)))) :
                      ~Fails(c))
               => TabulatedUnder(r, FilterByPriority(VarConfig(r.var_name)))

\* a batch with a global filter returned a table for a variable without
\* filter_set, filtered by the global filter, and a table for a variable with
\* its own filter_set, which keeps rows the global filter drops
C27_Witness ==
    /\ calls = 1
    /\ config.global_filter # ""
    /\ \E r1, r2 \in Range(results) :
          /\ ~VarConfig(r1.var_name).has_filter_set
          /\ r1.filter_info.present /\ r1.filter_info.name = config.global_filter
          /\ VarConfig(r2.var_name).has_filter_set
          /\ r2.filter_info.present
          /\ r2.filter_info.name = VarConfig(r2.var_name).filter_set
          /\ r2.filter_info.name # config.global_filter
          /\ r2.filter_info.stats.filtered_count > r1.filter_info.stats.filtered_count

\* the row labels of a frequency table, in order
RowLabels(freq_table) == [k \in 1..Len(freq_table) |-> freq_table[k].label]

\* every row of the table has a usable weight
AllWeightsUsable(df) ==
    \A k \in 1..len(df) : Usable(df.rows[k].val[config.weighting.weight_variable])

\* C29: for the same single variable, value labels and table in which every
\* row has a usable weight, the weighted and the unweighted tabulation
\* produce the same sequence of row labels; a labelled value with zero
\* observations appears as a row in both tables or in neither.
C29_SameRowLabels ==
    \A r \in Range(results) :
        (r.type = "single" /\ r.weighted /\ AllWeightsUsable(TableOf(r))) =>
            RowLabels(r.freq_table)
               = RowLabels(_process_single_punch_unweighted(
                              r.var_name, TableOf(r), r.filter_info,
                              LabelsOfVariable(r.var_name)).freq_table)

\* C30: under every interleaving of Launch clicks, Stop Server clicks,
\* subprocess exits and the monitor threads' deferred _on_process_ended
\* callbacks, is_running is true and the Launch button disabled whenever the
\* most recently launched subprocess is still alive, so at most one dashboard
\* subprocess is alive at a time.
C30_SingleDashboard ==
    /\ launched \in alive => is_running /\ launch_btn = "disabled"
    /\ Cardinality(alive) <= 1

=============================================================================
